---- MODULE Spec2Model ----
(***************************************************************************)
(* A model of the construct protocol of definition.py: Definition,         *)
(* NodeSequenceDef and DelegatingDef building a Node tree from a           *)
(* FileSource, with staged validation.  One parse is the call              *)
(* root_definition.construct(FileSource(fn), root) of png.main; main runs  *)
(* it once per file with the same templates, which is modelled by two      *)
(* parses in succession on sources with identical bytes.                   *)
(***************************************************************************)
EXTENDS Integers, Sequences, FiniteSets, TLC

\* Bounds of the model.
MaxSize == 10       \* longest source, in bytes
RecLen == 4         \* length of the BytestringDef records of the grammar
MaxItems == 2       \* largest literal or Path-resolved items
MaxWrites == 3      \* most add_data calls made on one node
MaxInt == 3         \* the integers of the calls are -MaxInt..MaxInt
MaxLeafSize == 4    \* longest source of the grammars of leaf definitions
StrLen == 2         \* length of the StringDef of the grammar

\* ValidationException levels (validation.py).
ValidationInfo == 0
ValidationWarning == 1
ValidationError == 2
ValidationFatal == 3

VARIABLES
    cfg,     \* the grammar parameters and the source bytes (fixed by Init)
    parse,   \* 1 or 2: which of main's files is being parsed
    phase,   \* "idle", "running", "returned", "raised"
    pos,     \* FileSource.f.tell()
    nodes,   \* the Node objects created in this parse, by id
    stack,   \* the construct calls in progress, outermost first
    exc,     \* the exception in flight, "none" when there is none
    ret,     \* the value returned by the construct call that ended last
    gen,     \* the child_generator object held by each NodeSequenceDef
    log,     \* history: what the engine did in this parse, in order
    first,   \* history: how the first parse ended
    call     \* a constructor or function called on its own, and its result

vars == <<cfg, parse, phase, pos, nodes, stack, exc, ret, gen, log, first,
          call>>

(***************************************************************************)
(* Python values.                                                          *)
(***************************************************************************)
PyNone == [t |-> "none"]
PyInt(n) == [t |-> "int", n |-> n]
PyList(s) == [t |-> "list", v |-> s]
PyBytes(b) == [t |-> "bytes", b |-> b]
NodeRef(id) == [t |-> "node", id |-> id]
DefRef(d) == [t |-> "def", d |-> d]
PathOf(steps) == [t |-> "path", steps |-> steps]

\* not x, for the values items can take
Falsy(x) == x.t = "none" \/ (x.t = "int" /\ x.n = 0)

EmptyDict == [k \in {} |-> PyNone]

\* BaseNode.add_data for one key: the first write stores the value, a write
\* to a key holding a list appends, a write to a key holding anything else
\* makes a two-element list.
add_data_key(attrdict, k, v) ==
    IF k \in DOMAIN attrdict
    THEN IF attrdict[k].t = "list"
         THEN [attrdict EXCEPT ![k] = PyList(Append(attrdict[k].v, v))]
         ELSE [attrdict EXCEPT ![k] = PyList(<<attrdict[k], v>>)]
    ELSE attrdict @@ (k :> v)

\* BaseNode.add_data: d is the sequence of the items of the dict written.
RECURSIVE add_data(_, _)
add_data(attrdict, d) ==
    IF d = <<>> THEN attrdict
    ELSE add_data(add_data_key(attrdict, d[1].k, d[1].v), Tail(d))

KV(k, v) == [k |-> k, v |-> v]

(***************************************************************************)
(* The grammar: nine Definition templates, parameterised by cfg.           *)
(***************************************************************************)
DefIds == {"hdr", "rec", "seq", "outer", "deleg", "top", "sig", "str", "nts"}
SeqDefs == {"seq", "outer"}
LeafBodies == {"sig", "str", "nts"}

\* b"AB", the staticbytes of the StaticDef of the grammar
Expected == <<65, 66>>

\* Path().parent.children[0].value, as in png.py's payload lengths
SiblingValue == PathOf(<<"parent", "children", "0", "value">>)

Stages == {"pre", "per_child", "pre_derivation", "post"}

\* Validation(value, "==", comparison, stage=stage, error=error)
Validation(value, comparison, stage, error) ==
    [value |-> value, comparison |-> comparison, stage |-> stage,
     error |-> error]

NoFields ==
    [value_func |-> "none", length |-> 0, children |-> <<>>,
     childdef |-> "none", items |-> PyNone, stop |-> "none",
     defdict |-> EmptyDict, keyfunc |-> "none", staticbytes |-> <<>>,
     encoding |-> "none"]

\* StaticDef.__init__: Validation(Path().value, "==", staticbytes,
\* error=ValidationFatal), of the default stage
StaticValidation(staticbytes) ==
    Validation(PathOf(<<"value">>), PyBytes(staticbytes), "post",
               ValidationFatal)

Template(d) ==
    LET base == [name |-> d,
                 validation |-> IF d = cfg.vdef THEN cfg.vlist ELSE <<>>,
                 attributes |-> IF d = cfg.vdef THEN cfg.alist ELSE <<>>]
    IN  CASE d = "hdr" ->     \* IntegerDef("hdr", "!B")
               base @@ [NoFields EXCEPT !.value_func = "int", !.length = 1]
          [] d = "rec" ->     \* BytestringDef("rec", RecLen)
               base @@ [NoFields EXCEPT !.value_func = "bytes",
                                        !.length = RecLen]
          [] d = "seq" ->     \* NodeSequenceDef("seq", rec, items, stop)
               base @@ [NoFields EXCEPT !.childdef = "rec",
                                        !.items = cfg.items,
                                        !.stop = cfg.stop]
          [] d = "outer" ->   \* NodeSequenceDef("outer", seq, oitems)
               base @@ [NoFields EXCEPT !.childdef = "seq",
                                        !.items = cfg.oitems,
                                        !.stop = "never"]
          [] d = "deleg" ->   \* DelegatingDef(defdict, keyfunc)
               base @@ [NoFields EXCEPT !.defdict = cfg.defdict,
                                        !.keyfunc = cfg.key]
          [] d = "sig" ->     \* StaticDef("sig", b"AB")
               [base EXCEPT !.validation =
                                Append(@, StaticValidation(Expected))]
               @@ [NoFields EXCEPT !.value_func = "static",
                                   !.staticbytes = Expected]
          [] d = "str" ->     \* StringDef("str", StrLen)
               base @@ [NoFields EXCEPT !.value_func = "string",
                                        !.length = StrLen,
                                        !.encoding = "utf8"]
          [] d = "nts" ->     \* NullTerminatedStringDef("nts")
               base @@ [NoFields EXCEPT !.value_func = "cstring",
                                        !.encoding = "utf8"]
          [] OTHER ->         \* DefinedChildrenDef("top", [hdr, body]), or
                              \* [hdr, body, hdr] with a leaf as body
               base @@ [NoFields EXCEPT !.children =
                           IF cfg.body \in LeafBodies
                           THEN <<"hdr", cfg.body, "hdr">>
                           ELSE <<"hdr", cfg.body>>]

(***************************************************************************)
(* Node and FileSource.                                                    *)
(***************************************************************************)
\* A node put in front of its parent's children, under which
\* C17_ChildrenOnlyAppended does not hold.
NewNode_in_front(ns, name, parent) ==
    Append(IF parent # 0
           THEN [ns EXCEPT ![parent].children = <<Len(ns) + 1>> \o @]
           ELSE ns,
           [name |-> name, parent |-> parent, children |-> <<>>,
            attributes |-> EmptyDict, metadata |-> EmptyDict])

\* Node(name, parent): the new node is appended to its parent's children.
NewNode(ns, name, parent) ==
    Append(IF parent # 0
           THEN [ns EXCEPT ![parent].children = Append(@, Len(ns) + 1)]
           ELSE ns,
           [name |-> name, parent |-> parent, children |-> <<>>,
            attributes |-> EmptyDict, metadata |-> EmptyDict])

\* del children[-1] on the children of node id
DelLastChild(ns, id) ==
    [ns EXCEPT ![id].children = SubSeq(@, 1, Len(@) - 1)]

Size == Len(cfg.src)

\* A read that left the cursor in place when it fails, under which
\* C9_RecoversOnlyAtRecordEnd does not hold.
ReadEnd_cursor_kept(n) == IF pos + n <= Size THEN pos + n ELSE pos

\* FileSource.read(n): f.read(n) moves the cursor over the bytes it can
\* return, also when they are fewer than n and EOFError is raised.
ReadEnd(n) == IF pos + n <= Size THEN pos + n ELSE Size
ReadRaises(n) == ReadEnd(n) - pos < n
ReadData(n) == SubSeq(cfg.src, pos + 1, ReadEnd(n))

get_preread_metadata ==
    <<KV("source", [t |-> "str", s |-> "path"]), KV("start_index", PyInt(pos))>>

get_postread_metadata(node) ==
    <<KV("end_index", PyInt(pos)),
      KV("length", PyInt(pos - node.metadata["start_index"].n))>>

(***************************************************************************)
(* The history of a parse.                                                 *)
(***************************************************************************)
Ev(e, n, s, i) == [e |-> e, n |-> n, s |-> s, i |-> i, p |-> pos]

(***************************************************************************)
(* Path.resolve_path, for chains of attribute and index steps.             *)
(***************************************************************************)
PyError == [t |-> "error"]

Step(ns, obj, name) ==
    CASE obj.t = "node" /\ name = "parent" ->
             IF ns[obj.id].parent = 0 THEN PyNone
             ELSE NodeRef(ns[obj.id].parent)
      [] obj.t = "node" /\ name = "children" ->
             PyList([i \in 1..Len(ns[obj.id].children) |->
                        NodeRef(ns[obj.id].children[i])])
      [] obj.t = "list" /\ name = "0" ->
             IF Len(obj.v) > 0 THEN obj.v[1] ELSE PyError
      [] obj.t = "node" /\ name = "value" ->
             IF "value" \in DOMAIN ns[obj.id].attributes
             THEN ns[obj.id].attributes["value"] ELSE PyError
      [] OTHER -> PyError

RECURSIVE resolve_path(_, _, _)
resolve_path(ns, steps, obj) ==
    IF steps = <<>> THEN obj
    ELSE Step(ns, resolve_path(ns, SubSeq(steps, 1, Len(steps) - 1), obj),
              steps[Len(steps)])

\* Definition.resolve: a Path is resolved against the node, anything else
\* is the value itself.
resolve(ns, attr, node) ==
    IF attr.t = "path" THEN resolve_path(ns, attr.steps, node) ELSE attr

\* Definition.resolve_all: the facade's fields.
resolve_all(ns, d, node) ==
    [Template(d) EXCEPT !.items = resolve(ns, @, node)]

(***************************************************************************)
(* Validation and Definition.validate_stage.                               *)
(***************************************************************************)
\* Validation.__call__ returns when the comparison holds and raises
\* self.error otherwise.
Passes(v) == v.value = v.comparison

\* except (ValidationInfo, ValidationWarning, ValidationError)
Caught(level) ==
    level \in {ValidationInfo, ValidationWarning, ValidationError}

NewIssue(level, stage, i, n) ==
    [t |-> "issue", level |-> level, stage |-> stage, i |-> i, n |-> n]

\* The loop of validate_stage from the i-th validation on: the issues
\* collected, the validations called, and whether a Fatal ended the loop.
RECURSIVE StageLoop(_, _, _, _, _, _)
StageLoop(validation, stage, n, i, issues, ran) ==
    IF i > Len(validation)
    THEN [issues |-> issues, ran |-> ran, fatal |-> FALSE]
    ELSE IF validation[i].stage # stage
    THEN StageLoop(validation, stage, n, i + 1, issues, ran)
    ELSE LET level == validation[i].error
             ran2 == Append(ran, Ev("validation", n, stage, i))
         IN  IF Passes(validation[i])
             THEN StageLoop(validation, stage, n, i + 1, issues, ran2)
             ELSE IF Caught(level)
             THEN StageLoop(validation, stage, n, i + 1,
                            Append(issues, NewIssue(level, stage, i, n)),
                            Append(ran2, Ev("issue", n, stage, i)))
             ELSE [issues |-> issues,
                   ran |-> Append(ran2, Ev("fatal", n, stage, i)),
                   fatal |-> TRUE]

\* Validation.validate: value and comparison resolved against the node
ResolvedOn(ns, v, n) ==
    [v EXCEPT !.value = resolve(ns, @, NodeRef(n)),
              !.comparison = resolve(ns, @, NodeRef(n))]

\* validate_stage(node, stage): the node table afterwards, the history and
\* whether ValidationFatal is raised.
validate_stage(ns, validation, n, stage) ==
    LET r == StageLoop([i \in 1..Len(validation) |->
                           ResolvedOn(ns, validation[i], n)],
                       stage, n, 1, <<>>, <<>>)
    IN  [nodes |-> IF ~r.fatal /\ r.issues # <<>>
                   THEN [ns EXCEPT ![n].metadata =
                            add_data(@, <<KV("validation", PyList(r.issues))>>)]
                   ELSE ns,
         log |-> <<Ev("stage", n, stage, 0)>> \o r.ran,
         fatal |-> r.fatal]

(***************************************************************************)
(* NodeSequenceDef.child_generator, as the state of the generator object.  *)
(***************************************************************************)
NewGenerator == [st |-> "created", items |-> PyNone, i |-> 0]

\* self.stop(node)
Stop(ns, kind, x) ==
    CASE kind = "always" -> TRUE
      [] kind = "first" ->
             /\ x.t = "node"
             /\ ns[x.id].parent # 0
             /\ ns[x.id].name = "rec"
             /\ ns[ns[x.id].parent].children[1] = x.id
      [] OTHER -> FALSE

\* for i in itertools.count() if not items else range(items+1)
Exhausted(g) == ~Falsy(g.items) /\ g.i >= g.items.n + 1

\* One turn of the for loop, entered with node = x.
LoopTurn(ns, d, g, x) ==
    LET called == IF x.t = "none" THEN <<>>
                  ELSE <<[e |-> "stop", n |-> 0, s |-> d, i |-> 0, p |-> pos,
                          arg |-> x]>>
    IN  IF Exhausted(g)
        THEN [g |-> [g EXCEPT !.st = "done"], out |-> "StopIteration",
              val |-> PyNone, log |-> <<>>]
        ELSE IF x.t # "none" /\ Stop(ns, Template(d).stop, x)
        THEN [g |-> [g EXCEPT !.st = "done"], out |-> "StopIteration",
              val |-> PyNone, log |-> called]
        ELSE [g |-> [g EXCEPT !.st = "looping",
                              !.i = IF Falsy(g.items) THEN 0 ELSE g.i + 1],
              out |-> "yield", val |-> DefRef(Template(d).childdef),
              log |-> called]

\* children.send(x) on the generator of template d.
GenSend(ns, d, x) ==
    LET g == gen[d]
    IN  CASE g.st = "created" ->
                 [g |-> [g EXCEPT !.st = "primed"], out |-> "yield",
                  val |-> PyNone, log |-> <<>>]
          [] g.st = "primed" ->
                 LET items == resolve(ns, Template(d).items, x)
                 IN  IF items.t = "int" /\ items.n < 0
                     THEN [g |-> [g EXCEPT !.st = "done"], out |-> "Fatal",
                           val |-> PyNone, log |-> <<>>]
                     ELSE LoopTurn(ns, d, [g EXCEPT !.items = items], x)
          [] g.st = "looping" -> LoopTurn(ns, d, g, x)
          [] OTHER ->
                 [g |-> g, out |-> "StopIteration", val |-> PyNone,
                  log |-> <<>>]

(***************************************************************************)
(* DelegatingDef: the dispatch map.                                        *)
(***************************************************************************)
PyStr(s) == [t |-> "str", s |-> s]

\* A lookup without the 'default' fallback, under which
\* C15_DeadEndWithoutDefault does not hold.
DictGet_no_default(defdict, key) ==
    IF key.t = "str" /\ key.s \in DOMAIN defdict THEN defdict[key.s]
    ELSE PyNone

\* self.defdict.get(key, self.defdict.get("default"))
DictGet(defdict, key) ==
    IF key.t = "str" /\ key.s \in DOMAIN defdict THEN defdict[key.s]
    ELSE IF "default" \in DOMAIN defdict THEN defdict["default"]
    ELSE PyNone

\* A dispatch that takes the default entry for a value that is not a
\* Definition, under which C14_DelegatesThroughAliases does not hold.
FollowAliases_to_default(defdict, delegated, fuel) ==
    IF delegated.t = "def" THEN delegated
    ELSE IF "default" \in DOMAIN defdict THEN defdict["default"]
    ELSE PyNone

\* while not isinstance(delegated, Definition): look delegated up again
RECURSIVE FollowAliases(_, _, _)
FollowAliases(defdict, delegated, fuel) ==
    IF delegated.t = "def" THEN delegated
    ELSE IF fuel = 0 THEN [t |-> "diverges"]
    ELSE LET next == DictGet(defdict, delegated)
         IN  IF next.t = "none" THEN next
             ELSE FollowAliases(defdict, next, fuel - 1)

Delegated(defdict, key) ==
    FollowAliases(defdict, DictGet(defdict, key),
                  Cardinality(DOMAIN defdict) + 1)

(***************************************************************************)
(* The construct calls in progress.  A frame is one call of construct on a *)
(* template, together with the call on its facade.                         *)
(***************************************************************************)
Call(d, parent) ==
    [d |-> d, parent |-> parent, node |-> 0,
     pc |-> IF d = "deleg" THEN "probe" ELSE "enter",
     facade |-> Template(d), k |-> 0, last |-> PyNone, h |-> 0]

Top == stack[Len(stack)]
Put(f) == [stack EXCEPT ![Len(stack)] = f]
Popped == SubSeq(stack, 1, Len(stack) - 1)
Running == phase = "running" /\ exc = "none" /\ stack # <<>>

\* hasattr(children, "send"): the children of a NodeSequenceDef are its
\* generator, those of the other definitions a list.
IsGenerator(d) == d \in SeqDefs

\* root = node.Node("root", None)
RootNode ==
    [name |-> "root", parent |-> 0, children |-> <<>>,
     attributes |-> EmptyDict, metadata |-> EmptyDict]

\* One stage of validations run by the call on top of the stack.
RunStage(ns, stage, nextpc) ==
    LET f == Top
        r == validate_stage(ns, f.facade.validation, f.node, stage)
    IN  /\ nodes' = r.nodes
        /\ log' = log \o r.log
        /\ IF r.fatal
           THEN exc' = "Fatal" /\ stack' = stack
           ELSE exc' = exc /\ stack' = Put([f EXCEPT !.pc = nextpc])

\* A construct that stores the resolved fields in the template itself,
\* under which C12_TemplateUnchanged does not hold.
Enter_resolving_in_place ==
    /\ Running /\ Top.pc = "enter"
    /\ LET f == Top
           id == Len(nodes) + 1
           ns == NewNode(nodes, Template(f.d).name, f.parent)
           facade == resolve_all(ns, f.d, NodeRef(id))
       IN  /\ nodes' = ns
           /\ stack' = Put([f EXCEPT !.node = id, !.pc = "pre",
                               !.facade = facade])
           /\ cfg' = IF f.d = "seq" THEN [cfg EXCEPT !.items = facade.items]
                     ELSE cfg
           /\ log' = log \o <<Ev("create", id, f.d, f.parent),
                              Ev("resolve", id, f.d, 0)>>
    /\ UNCHANGED <<parse, phase, pos, exc, ret, gen, first, call>>

\* definition.py 246-250
Enter ==
    /\ Running /\ Top.pc = "enter"
    /\ LET f == Top
           id == Len(nodes) + 1
           ns == NewNode(nodes, Template(f.d).name, f.parent)
       IN  /\ nodes' = ns
           /\ stack' = Put([f EXCEPT !.node = id, !.pc = "pre",
                               !.facade = resolve_all(ns, f.d, NodeRef(id))])
           /\ log' = log \o <<Ev("create", id, f.d, f.parent),
                              Ev("resolve", id, f.d, 0)>>
    /\ UNCHANGED <<cfg, parse, phase, pos, exc, ret, gen, first, call>>

\* definition.py 253-255
Pre ==
    /\ Running /\ Top.pc = "pre"
    /\ RunStage([nodes EXCEPT ![Top.node].metadata =
                    add_data(@, <<KV("definition", DefRef(Top.d))>>)],
                "pre", "preread")
    /\ UNCHANGED <<cfg, parse, phase, pos, ret, gen, first, call>>

\* definition.py 256
PreRead ==
    /\ Running /\ Top.pc = "preread"
    /\ nodes' = [nodes EXCEPT ![Top.node].metadata =
                    add_data(@, get_preread_metadata)]
    /\ stack' = Put([Top EXCEPT !.pc = IF Top.facade.value_func # "none"
                                       THEN "value" ELSE "children"])
    /\ log' = Append(log, Ev("preread", Top.node, "", 0))
    /\ UNCHANGED <<cfg, parse, phase, pos, exc, ret, gen, first, call>>

\* val.decode("utf8", errors="strict") raises on a byte that is not ASCII:
\* the sources hold ASCII bytes and 0xFF, which no UTF-8 sequence contains.
StrictDecodes(data) == \A i \in 1..Len(data) : data[i] < 128

\* A decode_value that drops the bytes that do not decode, under which
\* C24_DecodeFallback does not hold.
decode_value_ignoring(data) ==
    PyStr([i \in 1..Len(data) |-> IF data[i] < 128 THEN data[i] ELSE 63])

\* StringDef.decode_value: the string returned, which is that of
\* val.decode("utf8", errors="replace") also when the strict decode
\* succeeds: the code points, U+FFFD for 0xFF
decode_value(data) ==
    PyStr([i \in 1..Len(data) |-> IF data[i] < 128 THEN data[i] ELSE 65533])

\* get_value of IntegerDef ("!B"), BytestringDef, StaticDef and the string
\* definitions, on the bytes read
Decode(value_func, data) ==
    IF value_func = "int" THEN PyInt(data[1])
    ELSE IF value_func \in {"string", "cstring"} THEN decode_value(data)
    ELSE PyBytes(data)

\* The index of the first null byte after the cursor, 0 when there is none.
NextNull ==
    IF \E i \in (pos + 1)..Size : cfg.src[i] = 0
    THEN CHOOSE i \in (pos + 1)..Size :
             /\ cfg.src[i] = 0
             /\ \A j \in (pos + 1)..(i - 1) : cfg.src[j] # 0
    ELSE 0

\* A StaticDef that reads one byte, under which C23_StaticMatchesOrFatal
\* does not hold.
ReadLength_one(facade) ==
    CASE facade.value_func = "static" -> 1
      [] facade.value_func = "cstring" ->
             IF NextNull = 0 THEN Size - pos + 1 ELSE NextNull - pos
      [] OTHER -> facade.length

\* The bytes get_value asks the source for: len(self.staticbytes),
\* self.length, or one byte at a time up to and including the first null
\* byte (one more than the source holds when there is none).
ReadLength(facade) ==
    CASE facade.value_func = "static" -> Len(facade.staticbytes)
      [] facade.value_func = "cstring" ->
             IF NextNull = 0 THEN Size - pos + 1 ELSE NextNull - pos
      [] OTHER -> facade.length

\* definition.py 257-261; the value is made of the bytes read, without the
\* terminator of a null terminated string, and decode_value records the
\* ValidationError on the node before the value is stored
Value ==
    /\ Running /\ Top.pc = "value"
    /\ LET f == Top
           n == ReadLength(f.facade)
           data == IF f.facade.value_func = "cstring"
                   THEN SubSeq(ReadData(n), 1, n - 1)
                   ELSE ReadData(n)
           fallback == /\ f.facade.value_func \in {"string", "cstring"}
                       /\ ~StrictDecodes(data)
           issue == [t |-> "issue", level |-> ValidationError,
                     stage |-> "decode", i |-> 0, n |-> f.node]
       IN  /\ pos' = ReadEnd(n)
           /\ IF ReadRaises(n)
              THEN /\ exc' = "EOFError" /\ nodes' = nodes /\ stack' = stack
                   /\ log' = Append(log, Ev("read", f.node, "", n))
              ELSE /\ exc' = exc
                   /\ nodes' = [nodes EXCEPT
                        ![f.node].metadata =
                            IF fallback
                            THEN add_data(@, <<KV("validation", issue)>>)
                            ELSE @,
                        ![f.node].attributes =
                            add_data(@, <<KV("value",
                                Decode(f.facade.value_func, data))>>)]
                   /\ stack' = Put([f EXCEPT !.pc = "pre_derivation"])
                   /\ log' = log \o <<Ev("read", f.node, "", n)>>
                               \o (IF fallback
                                   THEN <<Ev("issue", f.node, "decode", 0)>>
                                   ELSE <<>>)
    /\ UNCHANGED <<cfg, parse, phase, ret, gen, first, call>>

\* definition.py 277-278: the next child of a list of children
NextChild ==
    /\ Running /\ Top.pc = "children" /\ ~IsGenerator(Top.d)
    /\ LET f == Top
       IN  IF f.k < Len(f.facade.children)
           THEN /\ stack' = Append(Put([f EXCEPT !.pc = "per_child",
                                                 !.k = f.k + 1]),
                                   Call(f.facade.children[f.k + 1], f.node))
                /\ log' = Append(log, Ev("child", f.node,
                                         f.facade.children[f.k + 1], 0))
           ELSE /\ stack' = Put([f EXCEPT !.pc = "pre_derivation"])
                /\ log' = log
    /\ UNCHANGED <<cfg, parse, phase, pos, nodes, exc, ret, gen, first, call>>

\* definition.py 267: children.send(None)
Prime ==
    /\ Running /\ Top.pc = "children" /\ IsGenerator(Top.d)
    /\ LET f == Top
           r == GenSend(nodes, f.d, PyNone)
       IN  /\ gen' = [gen EXCEPT ![f.d] = r.g]
           /\ log' = Append(log \o r.log, Ev("prime", f.node, f.d, 0))
           /\ IF r.out = "yield"
              THEN exc' = exc /\ stack' = Put([f EXCEPT !.pc = "first"])
              ELSE exc' = r.out /\ stack' = stack
    /\ UNCHANGED <<cfg, parse, phase, pos, nodes, ret, first, call>>

\* definition.py 268: childnode = children.send(node)
SendFirst ==
    /\ Running /\ Top.pc = "first"
    /\ LET f == Top
           r == GenSend(nodes, f.d, NodeRef(f.node))
       IN  /\ gen' = [gen EXCEPT ![f.d] = r.g]
           /\ log' = log \o r.log
           /\ IF r.out = "yield"
              THEN exc' = exc
                   /\ stack' = Put([f EXCEPT !.pc = "send", !.last = r.val])
              ELSE exc' = r.out /\ stack' = stack
    /\ UNCHANGED <<cfg, parse, phase, pos, nodes, ret, first, call>>

\* definition.py 271-272: childdef = children.send(childnode), then
\* childdef.construct(source, node); StopIteration from send ends the loop
SendNext ==
    /\ Running /\ Top.pc = "send"
    /\ LET f == Top
           r == GenSend(nodes, f.d, f.last)
       IN  /\ gen' = [gen EXCEPT ![f.d] = r.g]
           /\ log' = IF r.out = "yield"
                     THEN Append(log \o r.log, Ev("child", f.node, r.val.d, 0))
                     ELSE log \o r.log
           /\ exc' = IF r.out = "Fatal" THEN "Fatal" ELSE exc
           /\ stack' = CASE r.out = "yield" ->
                               Append(Put([f EXCEPT !.pc = "per_child"]),
                                      Call(r.val.d, f.node))
                         [] r.out = "StopIteration" ->
                               Put([f EXCEPT !.pc = "pre_derivation"])
                         [] OTHER -> stack
    /\ UNCHANGED <<cfg, parse, phase, pos, nodes, ret, first, call>>

\* definition.py 273 and 279: the child has returned
PerChild ==
    /\ Running /\ Top.pc = "per_child"
    /\ LET f == Top
           r == validate_stage(nodes, f.facade.validation, f.node, "per_child")
       IN  /\ nodes' = r.nodes
           /\ log' = log \o r.log
           /\ IF r.fatal
              THEN exc' = "Fatal" /\ stack' = Put([f EXCEPT !.pc = "raised"])
              ELSE /\ exc' = exc
                   /\ stack' = Put([f EXCEPT !.last = ret,
                                       !.pc = IF IsGenerator(f.d)
                                              THEN "send" ELSE "children"])
    /\ UNCHANGED <<cfg, parse, phase, pos, ret, gen, first, call>>

\* definition.py 280
PreDerivation ==
    /\ Running /\ Top.pc = "pre_derivation"
    /\ RunStage(nodes, "pre_derivation", "attributes")
    /\ UNCHANGED <<cfg, parse, phase, pos, ret, gen, first, call>>

\* definition.py 281-288: attr(node) returns (name, value) or raises
\* AttributeProcessingError
RECURSIVE RunAttributes(_, _, _)
RunAttributes(node, attributes, i) ==
    IF i > Len(attributes) THEN node
    ELSE RunAttributes(
            IF attributes[i].ok
            THEN [node EXCEPT !.attributes =
                     add_data(@, <<KV(attributes[i].name, PyInt(i))>>)]
            ELSE [node EXCEPT !.metadata =
                     add_data(@, <<KV("validation", PyList(<<
                         [t |-> "issue", level |-> -2, stage |-> "attribute",
                          i |-> i, n |-> 0]>>))>>)],
            attributes, i + 1)

\* A construct that runs the post validations without the post-read
\* metadata, under which C2_ConstructOrder does not hold.
Attributes_then_post ==
    /\ Running /\ Top.pc = "attributes"
    /\ LET f == Top
       IN  /\ nodes' = [nodes EXCEPT ![f.node] =
                           RunAttributes(@, f.facade.attributes, 1)]
           /\ log' = log \o [i \in 1..Len(f.facade.attributes) |->
                                Ev("attribute", f.node, "", i)]
           /\ stack' = Put([f EXCEPT !.pc = "post"])
    /\ UNCHANGED <<cfg, parse, phase, pos, exc, ret, gen, first, call>>

\* A loop that ends at the first producer that raises, under which
\* C25_AttributeProducers does not hold.
AttributeLoop_until_failure(node, attributes) ==
    LET failed == {i \in 1..Len(attributes) : ~attributes[i].ok}
    IN  RunAttributes(node,
                      IF failed = {} THEN attributes
                      ELSE SubSeq(attributes, 1,
                                  CHOOSE i \in failed :
                                      \A j \in failed : i <= j),
                      1)

\* for attr in self.attributes: ...
AttributeLoop(node, attributes) == RunAttributes(node, attributes, 1)

Attributes ==
    /\ Running /\ Top.pc = "attributes"
    /\ LET f == Top
       IN  /\ nodes' = [nodes EXCEPT ![f.node] =
                           AttributeLoop(@, f.facade.attributes)]
           /\ log' = log \o [i \in 1..Len(f.facade.attributes) |->
                                Ev("attribute", f.node, "", i)]
           /\ stack' = Put([f EXCEPT !.pc = "postread"])
    /\ UNCHANGED <<cfg, parse, phase, pos, exc, ret, gen, first, call>>

\* definition.py 289
PostRead ==
    /\ Running /\ Top.pc = "postread"
    /\ nodes' = [nodes EXCEPT ![Top.node].metadata =
                    add_data(@, get_postread_metadata(nodes[Top.node]))]
    /\ stack' = Put([Top EXCEPT !.pc = "post"])
    /\ log' = Append(log, Ev("postread", Top.node, "", 0))
    /\ UNCHANGED <<cfg, parse, phase, pos, exc, ret, gen, first, call>>

\* definition.py 290
Post ==
    /\ Running /\ Top.pc = "post"
    /\ RunStage(nodes, "post", "return")
    /\ UNCHANGED <<cfg, parse, phase, pos, ret, gen, first, call>>

\* definition.py 291: return node
Return ==
    /\ Running /\ Top.pc = "return"
    /\ stack' = Popped
    /\ ret' = NodeRef(Top.node)
    /\ phase' = IF Popped = <<>> THEN "returned" ELSE phase
    /\ log' = Append(log, Ev("return", Top.node, Top.d, 0))
    /\ UNCHANGED <<cfg, parse, pos, nodes, exc, gen, first, call>>

(***************************************************************************)
(* Exceptions.                                                             *)
(***************************************************************************)
\* The call on top of the stack has a handler for the exception in flight.
HandlesEOF == Top.d \in SeqDefs /\ exc = "EOFError" /\ Top.h < 2
\* A loop over the generator with a bare except clause, under which
\* C4_FatalUnwinds does not hold.
HandlesStop_any_exception ==
    IsGenerator(Top.d) /\ Top.pc = "per_child" /\ exc # "none"

HandlesStop ==
    IsGenerator(Top.d) /\ Top.pc = "per_child" /\ exc = "StopIteration"

\* definition.py 525-537: the except EOFError clause of
\* NodeSequenceDef.construct, entered first in the call on the facade
\* (h = 0), then, when that one re-raised, in the call on the template.
HandleEOF ==
    /\ phase = "running" /\ stack # <<>> /\ HandlesEOF
    /\ LET f == Top
           items == IF f.h = 0 THEN f.facade.items ELSE Template(f.d).items
           seqnode == nodes[f.parent].children[Len(nodes[f.parent].children)]
           children == nodes[seqnode].children
           before == nodes[children[Len(children) - 1]].metadata
       IN  IF items.t = "none" /\ Len(children) >= 2
           THEN IF "end_index" \notin DOMAIN before
                THEN /\ exc' = "KeyError"
                     /\ UNCHANGED <<nodes, stack, ret, phase, log>>
                ELSE IF before["end_index"].n = pos
                THEN /\ nodes' = DelLastChild(nodes, seqnode)
                     /\ exc' = "none"
                     /\ stack' = Popped
                     /\ ret' = PyNone
                     /\ phase' = IF Popped = <<>> THEN "returned" ELSE phase
                     /\ log' = Append(log, Ev("recover", seqnode, f.d, 0))
                ELSE /\ stack' = Put([f EXCEPT !.h = f.h + 1])
                     /\ UNCHANGED <<nodes, exc, ret, phase, log>>
           ELSE /\ stack' = Put([f EXCEPT !.h = f.h + 1])
                /\ UNCHANGED <<nodes, exc, ret, phase, log>>
    /\ UNCHANGED <<cfg, parse, pos, gen, first, call>>

\* definition.py 274-275: except StopIteration: break
CatchStopIteration ==
    /\ phase = "running" /\ stack # <<>> /\ HandlesStop
    /\ exc' = "none"
    /\ stack' = Put([Top EXCEPT !.pc = "pre_derivation"])
    /\ log' = Append(log, Ev("break", Top.node, Top.d, 0))
    /\ UNCHANGED <<cfg, parse, phase, pos, nodes, ret, gen, first, call>>

\* An exception no clause of the call catches leaves the call.
Propagate ==
    /\ phase = "running" /\ stack # <<>> /\ exc # "none"
    /\ ~HandlesEOF /\ ~HandlesStop
    /\ stack' = Popped
    /\ phase' = IF Popped = <<>> THEN "raised" ELSE phase
    /\ UNCHANGED <<cfg, parse, pos, nodes, exc, ret, gen, log, first, call>>

(***************************************************************************)
(* DelegatingDef.construct.                                                *)
(***************************************************************************)
\* definition.py 577-578
DelegProbe ==
    /\ Running /\ Top.pc = "probe"
    /\ LET f == Top
           id == Len(nodes) + 1
           r == validate_stage(NewNode(nodes, "DelegatingDef", f.parent),
                               Template(f.d).validation, id, "pre")
       IN  /\ nodes' = r.nodes
           /\ log' = (log \o <<Ev("probe", id, f.d, f.parent)>>) \o r.log
           /\ IF r.fatal
              THEN exc' = "Fatal" /\ stack' = Put([f EXCEPT !.node = id])
              ELSE exc' = exc
                   /\ stack' = Put([f EXCEPT !.node = id, !.pc = "key"])
    /\ UNCHANGED <<cfg, parse, phase, pos, ret, gen, first, call>>

\* definition.py 579-588
DelegKey ==
    /\ Running /\ Top.pc = "key"
    /\ LET delegated == Delegated(Template(Top.d).defdict,
                                  PyStr(Template(Top.d).keyfunc))
       IN  /\ delegated.t # "diverges"
           /\ stack' = Put([Top EXCEPT !.last = delegated, !.pc = "delete"])
    /\ log' = Append(log, Ev("key", Top.node, Template(Top.d).keyfunc, 0))
    /\ UNCHANGED <<cfg, parse, phase, pos, nodes, exc, ret, gen, first, call>>

\* definition.py 590: del fakenode.parent.children[-1]
DelegDelete ==
    /\ Running /\ Top.pc = "delete"
    /\ nodes' = DelLastChild(nodes, nodes[Top.node].parent)
    /\ stack' = Put([Top EXCEPT !.pc = "dispatch"])
    /\ log' = Append(log, Ev("delete", Top.node, Top.d, 0))
    /\ UNCHANGED <<cfg, parse, phase, pos, exc, ret, gen, first, call>>

\* definition.py 591-598
DelegDispatch ==
    /\ Running /\ Top.pc = "dispatch"
    /\ LET f == Top
       IN  IF f.last.t = "def"
           THEN /\ stack' = Append(Put([f EXCEPT !.pc = "delegated"]),
                                   Call(f.last.d, f.parent))
                /\ UNCHANGED <<nodes, ret, phase, log>>
           ELSE /\ nodes' = [nodes EXCEPT ![f.parent].metadata =
                     add_data(@, <<KV("validation", PyList(<<
                         NewIssue(ValidationWarning, "delegate", 0,
                                  f.parent)>>))>>)]
                /\ stack' = Popped
                /\ ret' = PyNone
                /\ phase' = IF Popped = <<>> THEN "returned" ELSE phase
                /\ log' = Append(log, Ev("issue", f.parent, "delegate", 0))
    /\ UNCHANGED <<cfg, parse, pos, exc, gen, first, call>>

\* definition.py 592: return delegated.construct(source, parent)
DelegReturn ==
    /\ Running /\ Top.pc = "delegated"
    /\ stack' = Popped
    /\ phase' = IF Popped = <<>> THEN "returned" ELSE phase
    /\ UNCHANGED <<cfg, parse, pos, nodes, exc, ret, gen, log, first, call>>

(***************************************************************************)
(* The grammars and sources explored.                                      *)
(***************************************************************************)
Levels ==
    {ValidationInfo, ValidationWarning, ValidationError, ValidationFatal}

Failing(stage, error) == Validation(PyInt(1), PyInt(2), stage, error)
Passing(stage) == Validation(PyInt(1), PyInt(1), stage, ValidationWarning)

ValLists ==
    {<<Failing(s, l)>> : s \in Stages, l \in Levels}
    \cup {<<Failing(s, ValidationWarning), Failing(s, ValidationError)>> :
              s \in Stages}
    \cup {<<Failing(s, ValidationWarning), Failing(s, ValidationFatal)>> :
              s \in Stages}
    \cup {<<Failing(s, ValidationFatal), Failing(s, ValidationWarning)>> :
              s \in Stages}
    \cup {<<Failing(s, ValidationInfo), Passing(s)>> : s \in Stages}

AttrLists ==
    {<<>>, <<[name |-> "a", ok |-> TRUE]>>,
     <<[name |-> "a", ok |-> FALSE], [name |-> "b", ok |-> TRUE]>>,
     <<[name |-> "a", ok |-> TRUE], [name |-> "b", ok |-> FALSE],
       [name |-> "a", ok |-> TRUE]>>}

\* {"K1": "K2", "K2": rec, "default": seq}
AliasDict ==
    [K1 |-> PyStr("K2"), K2 |-> DefRef("rec"), default |-> DefRef("seq")]

DefDicts ==
    {AliasDict,
     [K1 |-> PyStr("K3")],
     [K1 |-> PyStr("K3"), default |-> DefRef("rec")],
     EmptyDict}

\* Path().parent.children[0].value is the value of hdr, the first byte.
Shape(root, body, items, oitems, stop, defdict, key, b) ==
    [root |-> root, body |-> body, items |-> items, oitems |-> oitems,
     stop |-> stop, defdict |-> defdict, key |-> key, b |-> b]

LiteralItems == {PyNone} \cup {PyInt(n) : n \in 0..MaxItems}

SeqShapes ==
    {Shape("seq", "seq", i, PyNone, s, EmptyDict, "K1", 0) :
        i \in LiteralItems, s \in {"never", "always", "first"}}

OuterShapes ==
    {Shape("outer", "seq", i, o, s, EmptyDict, "K1", 0) :
        i \in {PyNone, PyInt(0), PyInt(MaxItems)},
        o \in {PyNone, PyInt(MaxItems)}, s \in {"never", "first"}}

TopShapes ==
    {Shape("top", "seq", i, PyNone, "never", EmptyDict, "K1", 0) :
        i \in {PyNone, PyInt(MaxItems)}}
    \cup {Shape("top", "seq", SiblingValue, PyNone, "never", EmptyDict,
                "K1", b) : b \in 0..MaxItems}
    \cup {Shape("top", "outer", PyNone, PyInt(MaxItems), "never", EmptyDict,
                "K1", 0)}
    \cup {Shape("top", "deleg", PyNone, PyNone, "never", dd, k, 0) :
             dd \in DefDicts \ {EmptyDict}, k \in {"K1", "K9"}}
    \cup {Shape("top", "deleg", PyNone, PyNone, "never", EmptyDict, "K1", 0)}

Shapes == SeqShapes \cup OuterShapes \cup TopShapes

\* The shapes explored with validations and attribute producers.
DecoratedShapes ==
    {sh \in Shapes :
        /\ sh.stop = "never"
        /\ sh.items \in {PyNone, PyInt(MaxItems)}
        /\ sh.oitems = PyNone
        /\ sh.key = "K1"}

\* The definitions the root definition can reach.
InGrammar(sh) ==
    IF sh.root = "seq" THEN {"seq", "rec"}
    ELSE IF sh.root = "outer" THEN {"outer", "seq", "rec"}
    ELSE IF sh.body = "seq" THEN {"top", "seq", "rec"}
    ELSE IF sh.body = "outer" THEN {"top", "outer", "seq", "rec"}
    ELSE {"top", "deleg", "rec"}

Decorations ==
    {[vlist |-> vl, alist |-> <<>>] : vl \in ValLists}
    \cup {[vlist |-> <<>>, alist |-> al] : al \in AttrLists \ {<<>>}}
    \cup {[vlist |-> <<Failing("post", ValidationWarning)>>, alist |-> al] :
              al \in {al \in AttrLists : Len(al) = 3}}

Source(n, b) == [i \in 1..n |-> IF i = 1 THEN b ELSE 0]

Config(sh, n, vdef, dec, files) ==
    [src |-> Source(n, sh.b), root |-> sh.root, body |-> sh.body,
     items |-> sh.items, oitems |-> sh.oitems, stop |-> sh.stop,
     defdict |-> sh.defdict, key |-> sh.key, vdef |-> vdef,
     vlist |-> dec.vlist, alist |-> dec.alist, files |-> files]

\* Every shape on every source length, parsed twice; the decorated shapes
\* on the longest sources, parsed once.
Configs ==
    {Config(sh, n, "rec", [vlist |-> <<>>, alist |-> <<>>], 2) :
        sh \in Shapes, n \in 0..MaxSize}
    \cup UNION {{Config(sh, n, vdef, dec, 1) :
                    n \in (MaxSize - 2)..MaxSize, vdef \in InGrammar(sh),
                    dec \in Decorations} : sh \in DecoratedShapes}

\* No call is made outside a parse.
NoCall == [op |-> "none"]

Init ==
    /\ cfg \in Configs
    /\ parse = 1
    /\ phase = "running"
    /\ pos = 0
    /\ nodes = <<RootNode>>
    /\ stack = <<Call(cfg.root, 1)>>
    /\ exc = "none"
    /\ ret = PyNone
    /\ gen = [d \in SeqDefs |-> NewGenerator]
    /\ log = <<>>
    /\ first = [phase |-> "none"]
    /\ call = NoCall

\* png.main: the next file is parsed with the same templates, a new root
\* node and a new FileSource.
NextFile ==
    /\ parse = 1 /\ cfg.files = 2 /\ phase \in {"returned", "raised"}
    /\ parse' = 2
    /\ first' = [phase |-> phase, exc |-> exc, ret |-> ret, nodes |-> nodes]
    /\ phase' = "running"
    /\ pos' = 0
    /\ nodes' = <<RootNode>>
    /\ stack' = <<Call(cfg.root, 1)>>
    /\ exc' = "none"
    /\ ret' = PyNone
    /\ log' = <<>>
    /\ UNCHANGED <<cfg, gen, call>>

Next ==
    \/ Enter \/ Pre \/ PreRead \/ Value \/ NextChild \/ Prime \/ SendFirst
    \/ SendNext \/ PerChild \/ PreDerivation \/ Attributes \/ PostRead
    \/ Post \/ Return \/ HandleEOF \/ CatchStopIteration \/ Propagate
    \/ DelegProbe \/ DelegKey \/ DelegDelete \/ DelegDispatch \/ DelegReturn
    \/ NextFile

Spec == Init /\ [][Next]_vars

(***************************************************************************)
(* The grammars of leaf definitions: top = [hdr, body, hdr] with a         *)
(* StaticDef, a StringDef or a NullTerminatedStringDef as body, parsed     *)
(* once on every source of ASCII bytes, null bytes and 0xFF.               *)
(***************************************************************************)
LeafSources == UNION {[1..n -> {0, 65, 66, 255}] : n \in 0..MaxLeafSize}

LeafConfigs ==
    {[Config(Shape("top", body, PyNone, PyNone, "never", EmptyDict, "K1", 0),
             0, "rec", [vlist |-> <<>>, alist |-> <<>>], 1)
        EXCEPT !.src = src] :
        body \in LeafBodies, src \in LeafSources}

InitLeaves ==
    /\ cfg \in LeafConfigs
    /\ parse = 1
    /\ phase = "running"
    /\ pos = 0
    /\ nodes = <<RootNode>>
    /\ stack = <<Call(cfg.root, 1)>>
    /\ exc = "none"
    /\ ret = PyNone
    /\ gen = [d \in SeqDefs |-> NewGenerator]
    /\ log = <<>>
    /\ first = [phase |-> "none"]
    /\ call = NoCall

\* The steps of construct that a grammar of leaves and one
\* DefinedChildrenDef takes.
NextLeaves ==
    \/ Enter \/ Pre \/ PreRead \/ Value \/ NextChild \/ PerChild
    \/ PreDerivation \/ Attributes \/ PostRead \/ Post \/ Return
    \/ Propagate

SpecLeaves == InitLeaves /\ [][NextLeaves]_vars

(***************************************************************************)
(* Constructors and functions called on their own, outside a parse: the    *)
(* call is drawn from bounded sets of arguments, and one action per        *)
(* function carries it out.                                                *)
(***************************************************************************)
\* bool(x)
Truthy(x) ==
    CASE x.t = "none" -> FALSE
      [] x.t = "int" -> x.n # 0
      [] x.t = "list" -> x.v # <<>>
      [] OTHER -> TRUE

PyFunction == [t |-> "function"]
PyGenerator == [t |-> "generator"]

Raised(e) == [exc |-> e]

\* A constructor without the check of children against value_func, under
\* which C11_ExactlyOneOfChildrenAndValueFunc does not hold.
DefinitionInit_unchecked(value_func, children) ==
    [exc |-> "none", value_func |-> value_func, children |-> children]

\* Definition.__init__(name, value_func, children): the instance created,
\* or the error raised.  _set_value_func_values wraps its argument in a
\* list of one element, so self.value_func is the argument itself.
DefinitionInit(value_func, children) ==
    IF Truthy(value_func) /\ value_func.t # "function"
    THEN Raised("ValueError")
    ELSE LET ch == IF Truthy(children) THEN children ELSE PyList(<<>>)
         IN  IF Truthy(ch) /\ Truthy(value_func)
             THEN Raised("ValueError")
             ELSE IF ~Truthy(ch) /\ ~Truthy(value_func)
             THEN Raised("ValueError")
             ELSE [exc |-> "none", value_func |-> value_func,
                   children |-> ch]

Pending(op) == call.op = op /\ call.st = "pending"
Done(op) == call.op = op /\ call.st = "done"
Outside == UNCHANGED <<cfg, parse, phase, pos, nodes, stack, exc, ret, gen,
                       log, first>>

NewDefinition ==
    /\ Pending("Definition")
    /\ call' = [call EXCEPT !.st = "done",
                            !.out = DefinitionInit(call.value_func,
                                                   call.children)]
    /\ Outside

DefinitionCalls ==
    {[op |-> "Definition", st |-> "pending", out |-> PyNone,
      value_func |-> vf, children |-> ch] :
        vf \in {PyNone, PyFunction, PyInt(5), PyList(<<PyFunction>>)},
        ch \in {PyNone, PyList(<<>>), PyList(<<DefRef("rec")>>),
                PyList(<<DefRef("hdr"), DefRef("rec")>>), PyGenerator}}

\* node.add_data({k: v}, meta) on the node of the call
AddData ==
    /\ Pending("add_data")
    /\ Len(call.writes) < MaxWrites
    /\ \E meta \in BOOLEAN, k \in {"a", "validation"},
          v \in {PyNone, PyInt(0), PyInt(1), PyList(<<>>),
                 PyList(<<PyInt(1)>>)} :
           call' = [call EXCEPT
                      !.writes = Append(@, [meta |-> meta, k |-> k, v |-> v]),
                      !.node = IF meta
                               THEN [@ EXCEPT !.metadata =
                                        add_data(@, <<KV(k, v)>>)]
                               ELSE [@ EXCEPT !.attributes =
                                        add_data(@, <<KV(k, v)>>)]]
    /\ Outside

\* Node("n", None), with no write made yet
AddDataCalls ==
    {[op |-> "add_data", st |-> "pending", out |-> PyNone,
      node |-> [RootNode EXCEPT !.name = "n"], writes |-> <<>>]}

(***************************************************************************)
(* Path: a recorded chain of attribute accesses and calls, and the Python  *)
(* objects it is resolved against.                                         *)
(***************************************************************************)
Ints == (0 - MaxInt)..MaxInt

PyObject(attrs) == [t |-> "object", attrs |-> attrs]
Lambda(f) == [t |-> "function", f |-> f]
BoundMethod(self, name) == [t |-> "method", self |-> self, name |-> name]

\* x - k, x // k and x % k of Python integers: the quotient is rounded
\* down, the remainder has the sign of k, and k = 0 raises.
PySub(x, k) == PyInt(x - k)
PyFloorDiv(x, k) == IF k = 0 THEN PyError ELSE PyInt(x \div k)
PyMod(x, k) == IF k = 0 THEN PyError ELSE PyInt(x - k * (x \div k))

\* getattr(obj, name)
getattr(obj, name) ==
    CASE obj.t = "object" /\ name \in DOMAIN obj.attrs -> obj.attrs[name]
      [] obj.t = "int" /\ name \in {"__sub__", "__floordiv__", "__mod__"} ->
             BoundMethod(obj, name)
      [] OTHER -> PyError

\* f(*args, **kwargs) for the callables of the targets: lambda x: x * 2,
\* lambda x, by=1: x * by, and the arithmetic methods of an integer.
PyCall(f, args, kwargs) ==
    IF \/ \E i \in 1..Len(args) : args[i] = PyError
       \/ \E k \in DOMAIN kwargs : kwargs[k] = PyError
    THEN PyError
    ELSE CASE /\ f.t = "function" /\ f.f = "double"
              /\ Len(args) = 1 /\ DOMAIN kwargs = {}
              /\ args[1].t = "int" ->
                  PyInt(args[1].n * 2)
           [] /\ f.t = "function" /\ f.f = "scale"
              /\ Len(args) = 1 /\ DOMAIN kwargs \subseteq {"by"}
              /\ args[1].t = "int"
              /\ \A k \in DOMAIN kwargs : kwargs[k].t = "int" ->
                  PyInt(args[1].n * (IF "by" \in DOMAIN kwargs
                                     THEN kwargs["by"].n ELSE 1))
           [] /\ f.t = "method" /\ Len(args) = 1 /\ DOMAIN kwargs = {}
              /\ args[1].t = "int" ->
                  IF f.name = "__sub__" THEN PySub(f.self.n, args[1].n)
                  ELSE IF f.name = "__floordiv__"
                  THEN PyFloorDiv(f.self.n, args[1].n)
                  ELSE PyMod(f.self.n, args[1].n)
           [] OTHER -> PyError

\* Path(parent, name, call, args, kwargs)
Path(parent, name, called, args, kwargs) ==
    [t |-> "Path", parent |-> parent, name |-> name, call |-> called,
     args |-> args, kwargs |-> kwargs]

\* Path()
EmptyPath == Path(PyNone, PyNone, FALSE, <<>>, EmptyDict)

\* path.name
Path_getattribute(self, name) ==
    Path(self, PyStr(name), FALSE, <<>>, EmptyDict)

\* path(*args, **kwargs)
Path_call(self, args, kwargs) == Path(self, PyNone, TRUE, args, kwargs)

\* path - other, path // other, path % other
Path_sub(self, other) ==
    Path(self, PyStr("__sub__"), TRUE, <<other>>, EmptyDict)
Path_floordiv(self, other) ==
    Path(self, PyStr("__floordiv__"), TRUE, <<other>>, EmptyDict)
Path_mod(self, other) ==
    Path(self, PyStr("__mod__"), TRUE, <<other>>, EmptyDict)

\* other - path, other // path, other % path
Path_rsub(self, other) ==
    Path(self, PyStr("__sub__"), TRUE, <<other>>, EmptyDict)
Path_rfloordiv(self, other) ==
    Path(self, PyStr("__floordiv__"), TRUE, <<other>>, EmptyDict)
Path_rmod(self, other) ==
    Path(self, PyStr("__mod__"), TRUE, <<other>>, EmptyDict)

\* An argument resolved against the result of the parent of the call,
\* under which C18_ResolvesRootToLeaf does not hold.
ArgumentTarget_parent_result(obj, node) == obj

\* The object a Path-valued argument of a call is resolved against: node,
\* the target of the outermost resolve_path.
ArgumentTarget(obj, node) == node

\* Path.resolve_path(obj, node) in full, for any chain and any object; an
\* exception raised on the way is PyError.  resolve_path above is the same
\* function for the chains of attributes the grammars resolve on nodes.
RECURSIVE Path_resolve_path(_, _, _)
Path_resolve_path(self, obj, node) ==
    IF self.parent # PyNone
    THEN LET o == Path_resolve_path(self.parent, obj, node)
             Arg(a) ==
                 IF a.t = "Path"
                 THEN Path_resolve_path(a, ArgumentTarget(o, node),
                                        ArgumentTarget(o, node))
                 ELSE a
             args == [i \in 1..Len(self.args) |-> Arg(self.args[i])]
             kwargs == [k \in DOMAIN self.kwargs |-> Arg(self.kwargs[k])]
         IN  IF o = PyError THEN PyError
             ELSE IF self.call
             THEN IF self.name # PyNone
                  THEN PyCall(getattr(o, self.name.s), args, kwargs)
                  ELSE PyCall(o, args, kwargs)
             ELSE getattr(o, self.name.s)
    ELSE obj

\* path.resolve_path(target)
ResolvePath ==
    /\ Pending("resolve_path")
    /\ call' = [call EXCEPT !.st = "done",
                            !.out = Path_resolve_path(call.path, call.target,
                                                      call.target)]
    /\ Outside

\* A target with the attributes n and a, a having the attributes n, b and
\* scale.
Target(n) ==
    PyObject([n |-> PyInt(n),
              a |-> PyObject([n |-> PyInt(n + 1),
                              b |-> Lambda("double"),
                              scale |-> Lambda("scale")])])

Path_n == Path_getattribute(EmptyPath, "n")
Path_a == Path_getattribute(EmptyPath, "a")
Path_a_n == Path_getattribute(Path_a, "n")
Path_a_b == Path_getattribute(Path_a, "b")
Path_a_scale == Path_getattribute(Path_a, "scale")

PathsResolved ==
    {EmptyPath, Path_n, Path_a, Path_a_n, Path_a_b,
     Path_getattribute(EmptyPath, "zz"),
     Path_call(Path_a_b, <<PyInt(5)>>, EmptyDict),
     Path_call(Path_a_b, <<Path_n>>, EmptyDict),
     Path_call(Path_a_b, <<Path_call(Path_a_b, <<Path_n>>, EmptyDict)>>,
               EmptyDict),
     Path_call(Path_a_b, <<Path_getattribute(EmptyPath, "zz")>>, EmptyDict),
     Path_call(Path_a_scale, <<Path_n>>, EmptyDict),
     Path_call(Path_a_scale, <<PyInt(2)>>, [by |-> Path_n]),
     Path_call(Path_a_scale, <<Path_a_n>>, [by |-> Path_n]),
     Path_call(Path_n, <<PyInt(1)>>, EmptyDict)}

ResolveCalls ==
    {[op |-> "resolve_path", st |-> "pending", out |-> PyNone,
      path |-> p, target |-> Target(n)] :
        p \in PathsResolved, n \in Ints}

\* The Path Python builds for path oper k (side "left") and for
\* k oper path (side "right", where int's own method returns
\* NotImplemented and the reflected method of Path is called).
Expression(oper, side, path, k) ==
    CASE oper = "-" /\ side = "left" -> Path_sub(path, PyInt(k))
      [] oper = "//" /\ side = "left" -> Path_floordiv(path, PyInt(k))
      [] oper = "%" /\ side = "left" -> Path_mod(path, PyInt(k))
      [] oper = "-" /\ side = "right" -> Path_rsub(path, PyInt(k))
      [] oper = "//" /\ side = "right" -> Path_rfloordiv(path, PyInt(k))
      [] oper = "%" /\ side = "right" -> Path_rmod(path, PyInt(k))

\* (path oper k).resolve_path(target) and (k oper path).resolve_path(target)
ResolveExpression ==
    /\ Pending("expression")
    /\ call' = [call EXCEPT
                  !.st = "done",
                  !.out = Path_resolve_path(
                              Expression(call.oper, call.side, call.path,
                                         call.k),
                              call.target, call.target)]
    /\ Outside

ExpressionCalls ==
    {[op |-> "expression", st |-> "pending", out |-> PyNone,
      oper |-> oper, side |-> side, path |-> p, k |-> k,
      target |-> Target(n)] :
        oper \in {"-", "//", "%"}, side \in {"left", "right"},
        p \in {Path_n, Path_a_n}, k \in Ints, n \in Ints}

(***************************************************************************)
(* Compound validations.                                                   *)
(***************************************************************************)
\* Validation.known_stages and known_stages.index(stage)
known_stages == <<"pre", "per_child", "pre_derivation", "post">>
StageIndex(stage) == CHOOSE i \in 1..Len(known_stages) : known_stages[i] = stage

IsCompound(v) == "kind" \in DOMAIN v

\* CompoundValidation.__init__(v1, v2): the operand of the higher level is
\* self.v1, the first operand when the levels are equal; self.error is the
\* error of the first operand.
CompoundValidation(kind, v1, v2) ==
    [kind |-> kind,
     v1 |-> IF v1.error >= v2.error THEN v1 ELSE v2,
     v2 |-> IF v1.error >= v2.error THEN v2 ELSE v1,
     error |-> v1.error,
     stage |-> known_stages[IF StageIndex(v1.stage) >= StageIndex(v2.stage)
                            THEN StageIndex(v1.stage)
                            ELSE StageIndex(v2.stage)],
     value |-> PyNone, comparison |-> PyNone]

\* v1 & v2
AndValidation(v1, v2) == CompoundValidation("and", v1, v2)

\* v1 | v2
OrValidation(v1, v2) == CompoundValidation("or", v1, v2)

\* validation(definition, node, descendent): the plain validations
\* evaluated, in order, and the one that raised, if any.  An AND calls
\* self.v1 then self.v2; an OR calls both, and raises the error of self.v1
\* when self.v2 raises as well.
RECURSIVE ValidationCall(_)
ValidationCall(v) ==
    IF ~IsCompound(v)
    THEN IF Passes(v)
         THEN [exc |-> "none", ran |-> <<v>>]
         ELSE [exc |-> "raised", error |-> v.error, by |-> v, ran |-> <<v>>]
    ELSE LET r1 == ValidationCall(v.v1)
             r2 == ValidationCall(v.v2)
         IN  IF v.kind = "and"
             THEN IF r1.exc # "none" THEN r1
                  ELSE [r2 EXCEPT !.ran = r1.ran \o @]
             ELSE IF r1.exc # "none" /\ r2.exc # "none"
                  THEN [r1 EXCEPT !.ran = @ \o r2.ran]
                  ELSE [exc |-> "none", ran |-> r1.ran \o r2.ran]

\* (left & right)(definition, node)
CallAnd ==
    /\ Pending("and")
    /\ call' = [call EXCEPT
                  !.st = "done",
                  !.out = ValidationCall(AndValidation(call.left,
                                                       call.right))]
    /\ Outside

\* Plain validations told apart by their value: passing when the
\* comparison equals it, failing when it does not.
Checks(value) ==
    {Validation(value, c, "post", l) : c \in {value, value + 1}, l \in Levels}

AndCalls ==
    {[op |-> "and", st |-> "pending", out |-> PyNone,
      left |-> l, right |-> r] :
        l \in Checks(1)
              \cup {AndValidation(a, b) : a \in Checks(5), b \in Checks(7)},
        r \in Checks(3)}
    \cup {[op |-> "and", st |-> "pending", out |-> PyNone,
           left |-> l, right |-> AndValidation(a, b)] :
             l \in Checks(1), a \in Checks(5), b \in Checks(7)}

\* (left | right)(definition, node, descendent)
CallOr ==
    /\ Pending("or")
    /\ call' = [call EXCEPT
                  !.st = "done",
                  !.out = ValidationCall(OrValidation(call.left,
                                                      call.right))]
    /\ Outside

OrCalls ==
    {[op |-> "or", st |-> "pending", out |-> PyNone,
      left |-> l, right |-> r] :
        l \in Checks(1)
              \cup {OrValidation(a, b) : a \in Checks(5), b \in Checks(7)},
        r \in Checks(3)}
    \cup {[op |-> "or", st |-> "pending", out |-> PyNone,
           left |-> l, right |-> OrValidation(a, b)] :
             l \in Checks(1), a \in Checks(5), b \in Checks(7)}

\* left & right and left | right, as constructed
NewCompound ==
    /\ Pending("compound")
    /\ call' = [call EXCEPT
                  !.st = "done",
                  !.out = CompoundValidation(call.kind, call.left,
                                             call.right)]
    /\ Outside

CompoundCalls ==
    {[op |-> "compound", st |-> "pending", out |-> PyNone, kind |-> kind,
      left |-> Validation(1, 1, sl, ll),
      right |-> Validation(3, 3, sr, lr)] :
        kind \in {"and", "or"}, sl \in Stages, sr \in Stages,
        ll \in Levels, lr \in Levels}

(***************************************************************************)
(* A plain validation evaluated on a node.                                 *)
(***************************************************************************)
PyTuple(s) == [t |-> "tuple", v |-> s]

\* OpInfo.operators: the symbols, and whether the arguments are reversed
OpSymbols == {"<", "<=", "==", "!=", ">=", ">", "in", "not in"}
OpReversed(symbol) == symbol = "in"

\* An exception class of the given level, as the error of a validation.
ErrorClass(level) == [t |-> "class", level |-> level]

\* Validation(value, func, comparison, error=error): self.error is
\* ValidationWarning when no error is given.
NewValidation(value, func, comparison, error) ==
    [value |-> value, func |-> func, comparison |-> comparison,
     stage |-> "post",
     error |-> IF Truthy(error) THEN error.level ELSE ValidationWarning]

\* Validation.resolve(path_or_val, node)
RECURSIVE Validation_resolve(_, _)
Validation_resolve(path_or_val, node) ==
    IF path_or_val.t \in {"tuple", "list"}
    THEN IF Len(path_or_val.v) = 0 THEN path_or_val
         ELSE PyTuple([i \in 1..Len(path_or_val.v) |->
                          Validation_resolve(path_or_val.v[i], node)])
    ELSE IF path_or_val.t = "Path"
    THEN Path_resolve_path(path_or_val, node, node)
    ELSE IF path_or_val.t = "str" /\ path_or_val.s \in DOMAIN node.attrs
    THEN getattr(node, path_or_val.s)
    ELSE path_or_val

PyBool(b) == [t |-> "bool", b |-> b]

\* The functions of OpInfo.operators on two resolved values: a bool, or
\* PyError where Python raises TypeError.
OpFunction(symbol, a, b) ==
    CASE symbol = "==" -> PyBool(a = b)
      [] symbol = "!=" -> PyBool(a # b)
      [] symbol \in {"<", "<=", ">=", ">"} ->
             IF a.t = "int" /\ b.t = "int"
             THEN PyBool(IF symbol = "<" THEN a.n < b.n
                         ELSE IF symbol = "<=" THEN a.n <= b.n
                         ELSE IF symbol = ">=" THEN a.n >= b.n
                         ELSE a.n > b.n)
             ELSE PyError
      [] symbol = "in" ->
             \* operator.contains(a, b)
             IF a.t \in {"tuple", "list"}
             THEN PyBool(\E i \in 1..Len(a.v) : a.v[i] = b)
             ELSE PyError
      [] symbol = "not in" ->
             \* a not in b
             IF b.t \in {"tuple", "list"}
             THEN PyBool(~(\E i \in 1..Len(b.v) : b.v[i] = a))
             ELSE PyError

\* Validation.validate(node): res
Validation_validate(self, node) ==
    LET value == Validation_resolve(self.value, node)
        comparison == Validation_resolve(self.comparison, node)
    IN  IF OpReversed(self.func)
        THEN OpFunction(self.func, comparison, value)
        ELSE OpFunction(self.func, value, comparison)

\* Validation.__call__(definition, node): the exception raised, if any, and
\* the node afterwards.
Validation_call(self, node) ==
    LET result == Validation_validate(self, node)
    IN  IF result = PyError THEN [exc |-> "TypeError", node |-> node]
        ELSE IF ~result.b
        THEN [exc |-> "raised", error |-> self.error, node |-> node]
        ELSE [exc |-> "none", node |-> node]

\* Validation(value, func, comparison, error=error)(definition, node)
CallValidation ==
    /\ Pending("validation")
    /\ call' = [call EXCEPT
                  !.st = "done",
                  !.out = Validation_call(
                              NewValidation(call.value, call.func,
                                            call.comparison, call.error),
                              call.node)]
    /\ Outside

\* A node with an integer attribute and a list attribute.
ValidatedNode(n) ==
    PyObject([value |-> PyInt(n),
              items |-> PyList(<<PyInt(1), PyInt(2)>>)])

\* Literals, attribute names and Paths given as value or comparison.
Operands ==
    {PyInt(1), PyInt(2), PyStr("value"), PyStr("items"), PyStr("zz"),
     Path_getattribute(EmptyPath, "value"),
     Path_getattribute(EmptyPath, "items"),
     PyList(<<>>), PyList(<<PyInt(1), PyInt(2)>>),
     PyTuple(<<PyInt(1), PyInt(2)>>)}

ValidationCalls ==
    {[op |-> "validation", st |-> "pending", out |-> PyNone,
      value |-> v, func |-> f, comparison |-> c, error |-> e,
      node |-> ValidatedNode(n)] :
        v \in Operands, f \in OpSymbols, c \in Operands,
        e \in {PyNone, ErrorClass(ValidationInfo),
                ErrorClass(ValidationFatal)},
        n \in Ints}

(***************************************************************************)
(* The key resolution of DelegatingDef.construct, called on its own.       *)
(***************************************************************************)
\* The dispatch maps of up to three keys; an entry holds a Definition or
\* the name of a key.
DispatchMaps ==
    UNION {[keys -> {DefRef("rec"), PyStr("K1"), PyStr("K2"), PyStr("K3"),
                     PyStr("default")}] :
              keys \in SUBSET {"K1", "K2", "default"}}

DispatchCalls ==
    {[op |-> "dispatch", st |-> "pending", defdict |-> dd, key |-> k,
      out |-> PyNone] :
        dd \in DispatchMaps, k \in {"K1", "K3"}}

\* definition.py 583-588: the lookup of the key and the while loop; a loop
\* that never ends leaves the call looping.
ResolveKey ==
    /\ Pending("dispatch")
    /\ LET delegated == Delegated(call.defdict, PyStr(call.key))
       IN  call' = IF delegated.t = "diverges"
                   THEN [call EXCEPT !.st = "looping"]
                   ELSE [call EXCEPT !.st = "done", !.out = delegated]
    /\ Outside

Calls ==
    DefinitionCalls \cup AddDataCalls \cup ResolveCalls \cup ExpressionCalls
    \cup AndCalls \cup OrCalls \cup CompoundCalls \cup ValidationCalls
    \cup DispatchCalls

\* The state before main has opened a file.
InitCalls ==
    /\ call \in Calls
    /\ cfg = Config(CHOOSE sh \in SeqShapes : TRUE, 0, "rec",
                    [vlist |-> <<>>, alist |-> <<>>], 1)
    /\ parse = 0
    /\ phase = "idle"
    /\ pos = 0
    /\ nodes = <<>>
    /\ stack = <<>>
    /\ exc = "none"
    /\ ret = PyNone
    /\ gen = [d \in SeqDefs |-> NewGenerator]
    /\ log = <<>>
    /\ first = [phase |-> "none"]

NextCalls ==
    \/ NewDefinition
    \/ AddData
    \/ ResolvePath
    \/ ResolveExpression
    \/ CallAnd
    \/ CallOr
    \/ NewCompound
    \/ CallValidation
    \/ ResolveKey

SpecCalls == InitCalls /\ [][NextCalls]_vars

(***************************************************************************)
(* Vocabulary of the properties.                                           *)
(***************************************************************************)
Ended == phase \in {"returned", "raised"}

\* No validation and no attribute producer in the grammar.
Plain == cfg.vlist = <<>> /\ cfg.alist = <<>>

\* The node is reachable from the root through the children lists.
RECURSIVE InTree(_, _)
InTree(ns, id) ==
    \/ id = 1
    \/ /\ ns[id].parent # 0
       /\ \E k \in 1..Len(ns[ns[id].parent].children) :
              ns[ns[id].parent].children[k] = id
       /\ InTree(ns, ns[id].parent)

\* The issues held, at any depth, by a metadata value.
RECURSIVE IssuesOf(_)
IssuesOf(v) ==
    IF v.t = "issue" THEN {v}
    ELSE IF v.t = "list" THEN UNION {IssuesOf(v.v[k]) : k \in 1..Len(v.v)}
    ELSE {}

\* The issue raised by the i-th validation in the given stage on node n is
\* in the 'validation' metadata of node m.
RecordedOn(m, n, stage, i) ==
    /\ "validation" \in DOMAIN nodes[m].metadata
    /\ \E x \in IssuesOf(nodes[m].metadata["validation"]) :
           x.stage = stage /\ x.i = i /\ x.n = n

\* The validations of the definition that built (or probes with) node n.
ValidationsOf(n) ==
    Template(IF nodes[n].name = "DelegatingDef" THEN "deleg"
             ELSE nodes[n].name).validation

HasOffsets(ns, n) ==
    /\ {"start_index", "end_index", "length"} \subseteq DOMAIN ns[n].metadata
    /\ ns[n].metadata["length"].n =
           ns[n].metadata["end_index"].n - ns[n].metadata["start_index"].n

(***************************************************************************)
(* C1: constructing the same template twice in succession on sources with  *)
(* identical bytes yields the same tree, values and issues, and the same   *)
(* outcome, whether the first parse returned or was aborted.               *)
(***************************************************************************)
C1_SecondParseEqualsFirst ==
    (parse = 2 /\ Ended) =>
        /\ phase = first.phase
        /\ exc = first.exc
        /\ ret = first.ret
        /\ nodes = first.nodes

(***************************************************************************)
(* C9: a NodeSequence with no items and a never-true stop, on a source of  *)
(* complete RecLen-byte records followed by a shorter fragment, returns    *)
(* without EOFError and keeps exactly the complete records.                *)
(***************************************************************************)
UnboundedRecords ==
    /\ parse = 1 /\ Plain
    /\ cfg.root = "seq" /\ cfg.items = PyNone /\ cfg.stop = "never"

C9_FragmentDiscarded ==
    (Ended /\ UnboundedRecords /\ Size >= RecLen /\ Size % RecLen # 0) =>
        /\ phase = "returned"
        /\ Len(nodes[2].children) = Size \div RecLen

\* C9, amended: the sequence returns, keeping exactly the complete records,
\* when the source ends at the end of a record (and holds at least one);
\* with a trailing fragment, or an empty source, EOFError propagates and
\* the node of the fragment stays in the tree.
C9_RecoversOnlyAtRecordEnd ==
    (Ended /\ UnboundedRecords) =>
        IF Size >= RecLen /\ Size % RecLen = 0
        THEN /\ phase = "returned"
             /\ Len(nodes[2].children) = Size \div RecLen
             /\ pos = Size
        ELSE /\ phase = "raised" /\ exc = "EOFError"
             /\ Len(nodes[2].children) = (Size \div RecLen) + 1
             /\ pos = Size

C9_Witness ==
    /\ Ended /\ UnboundedRecords
    /\ Size >= 2 * RecLen /\ Size % RecLen # 0
    /\ phase = "raised"
    /\ Len(nodes[2].children) = 3

(***************************************************************************)
(* C2: a construct performs its steps in the order: create the node and    *)
(* append it to the parent; resolve the Paths; 'pre' validations; pre-read *)
(* metadata; the value or the children, each child followed by the         *)
(* 'per_child' validations; 'pre_derivation' validations; attributes;      *)
(* post-read metadata; 'post' validations; return.  No byte is read before *)
(* the 'pre' validations have finished, and the 'post' validations see the *)
(* end offset and the length of the node.                                  *)
(***************************************************************************)
\* The events of the constructs of Definition.construct: those of the
\* probes of a DelegatingDef and of the generator are not among them.
Steps ==
    {"create", "resolve", "stage", "validation", "issue", "fatal", "preread",
     "read", "child", "attribute", "postread", "return"}

OfConstruct(e) ==
    /\ e.e \in Steps
    /\ e.n # 0
    /\ e.s # "delegate"
    /\ nodes[e.n].name # "DelegatingDef"

StageRank(stage) ==
    CASE stage = "pre" -> 3
      [] stage = "per_child" -> 5
      [] stage = "pre_derivation" -> 6
      [] OTHER -> 9

Rank(e) ==
    CASE e.e = "create" -> 1
      [] e.e = "resolve" -> 2
      [] e.e \in {"stage", "validation", "issue", "fatal"} -> StageRank(e.s)
      [] e.e = "preread" -> 4
      [] e.e \in {"read", "child"} -> 5
      [] e.e = "attribute" -> 7
      [] e.e = "postread" -> 8
      [] OTHER -> 10

\* The steps no construct leaves out.
Mandatory == {1, 2, 3, 4, 6, 8, 9}

IsStage(e, n, stage) == e.e = "stage" /\ e.n = n /\ e.s = stage

LaterOfStage(validation, stage, i) ==
    {j \in (i + 1)..Len(validation) : validation[j].stage = stage}

C3_IssueRecordedAndStageContinues ==
    \A k \in 1..Len(log) :
        (log[k].e = "issue" /\ log[k].s \in Stages) =>
            /\ RecordedOn(log[k].n, log[k].n, log[k].s, log[k].i)
            /\ LET later == LaterOfStage(ValidationsOf(log[k].n), log[k].s,
                                         log[k].i)
               IN  later # {} =>
                       /\ k < Len(log)
                       /\ log[k + 1].e = "validation"
                       /\ log[k + 1].n = log[k].n
                       /\ log[k + 1].s = log[k].s
                       /\ \A j \in later : log[k + 1].i <= j

(***************************************************************************)
(* C4: a ValidationFatal raised by a validation ends the construct it is   *)
(* raised in and every enclosing construct, NodeSequence and Delegating    *)
(* constructs included: from the raise on no child is constructed, no      *)
(* validation or attribute producer runs, and no byte is read.             *)
(***************************************************************************)
C4_FatalUnwinds ==
    /\ [](\A k \in 1..Len(log) :
              log[k].e = "fatal" =>
                  /\ k = Len(log)
                  /\ exc = "Fatal"
                  /\ phase # "returned")
    /\ [][(exc = "Fatal" /\ phase = "running") =>
              /\ exc' = "Fatal"
              /\ Len(stack') = Len(stack) - 1
              /\ log' = log /\ pos' = pos /\ nodes' = nodes /\ gen' = gen
              /\ ret' = ret]_vars

\* A Fatal raised in a child of a sequence has left every construct, with
\* bytes of the source still unread.
C4_Witness ==
    /\ phase = "raised" /\ exc = "Fatal" /\ pos < Size
    /\ \E k \in 1..Len(log) :
           /\ log[k].e = "fatal"
           /\ nodes[log[k].n].parent > 1
           /\ nodes[nodes[log[k].n].parent].name \in SeqDefs

(***************************************************************************)
(* C5: every Info, Warning or Error issue raised by a validation during a  *)
(* parse is, at the end of the parse, in the 'validation' metadata of a    *)
(* node of the resulting tree.                                             *)
(***************************************************************************)
C5_NoIssueLost ==
    Ended =>
        \A k \in 1..Len(log) :
            (log[k].e = "issue" /\ log[k].s \in Stages) =>
                \E m \in 1..Len(nodes) :
                    /\ InTree(nodes, m)
                    /\ RecordedOn(m, log[k].n, log[k].s, log[k].i)

(***************************************************************************)
(* C6: for every n >= 0, a NodeSequence whose items is n, as a literal or  *)
(* through a Path, with the default stop, on a source holding at least n   *)
(* records, ends with exactly n children and reads no byte beyond the n-th *)
(* record.                                                                 *)
(***************************************************************************)
C6_ExactlyItemsChildren ==
    LET start == IF cfg.root = "top" THEN 1 ELSE 0
        seqnode == IF cfg.root = "top" THEN 4 ELSE 2
        n == IF cfg.items.t = "int" THEN cfg.items.n ELSE cfg.src[1]
    IN  (/\ parse = 1 /\ Ended /\ Plain
         /\ cfg.root \in {"seq", "top"} /\ cfg.body = "seq"
         /\ cfg.items # PyNone /\ cfg.stop = "never"
         /\ Size >= start
         /\ Size >= start + n * RecLen) =>
            /\ phase = "returned"
            /\ Len(nodes[seqnode].children) = n
            /\ pos = start + n * RecLen

(***************************************************************************)
(* C7: the stop function of a NodeSequence is evaluated only on the child  *)
(* Nodes of the sequence, and a sequence without items ends, keeping the   *)
(* child, right after the first child for which stop is true.              *)
(***************************************************************************)
C7_StopOnChildNodesOnly ==
    /\ \A k \in 1..Len(log) :
           log[k].e = "stop" =>
               /\ log[k].arg.t = "node"
               /\ nodes[log[k].arg.id].parent # 0
               /\ nodes[nodes[log[k].arg.id].parent].name = log[k].s
    /\ (/\ parse = 1 /\ Ended /\ Plain /\ cfg.root = "seq"
        /\ cfg.items = PyNone /\ cfg.stop = "first" /\ Size >= RecLen) =>
           phase = "returned" /\ Len(nodes[2].children) = 1

(***************************************************************************)
(* C8: when EOFError reaches a NodeSequence construct, the last child is   *)
(* removed and the error suppressed exactly when items was not given, the  *)
(* sequence has at least two children and the end offset of the second to  *)
(* last child equals the position of the source; otherwise EOFError        *)
(* propagates and no child is removed.                                     *)
(***************************************************************************)
Recoverable(seqnode, d) ==
    LET children == nodes[seqnode].children
    IN  /\ Template(d).items = PyNone
        /\ Len(children) >= 2
        /\ "end_index" \in DOMAIN nodes[children[Len(children) - 1]].metadata
        /\ nodes[children[Len(children) - 1]].metadata["end_index"].n = pos

C8_RecoverOrPropagate ==
    [][(/\ phase = "running" /\ stack # <<>>
        /\ exc = "EOFError" /\ Top.d \in SeqDefs) =>
           IF Recoverable(Top.node, Top.d)
           THEN /\ exc' = "none"
                /\ nodes' = DelLastChild(nodes, Top.node)
                /\ Len(stack') = Len(stack) - 1
           ELSE /\ exc' = "EOFError"
                /\ nodes' = nodes]_vars

(***************************************************************************)
(* C10: every construct of a leaf or container definition that returns     *)
(* normally returns the Node it created, whose metadata hold the post-read *)
(* offsets with length = end_index - start_index; a NodeSequence construct *)
(* that ended through the recovery from EOFError included.                 *)
(***************************************************************************)
C10_ReturnsCompleteNode ==
    [][(/\ phase = "running" /\ stack # <<>>
        /\ Top.d # "deleg"
        /\ Len(stack') = Len(stack) - 1
        /\ exc' = "none") =>
           /\ ret' = NodeRef(Top.node)
           /\ HasOffsets(nodes', Top.node)]_vars

(***************************************************************************)
(* C11: creating a Definition with both children and value_func set, or    *)
(* with neither, raises an error in the constructor, before any construct  *)
(* call and before a source is touched; with exactly one of the two set    *)
(* the Definition is created.                                              *)
(***************************************************************************)
\* An argument is set when it was given and is not an empty list;
\* value_func, when given, is a reader function.
IsSet(x) == x # PyNone /\ x # PyList(<<>>)

RECURSIVE Written(_, _, _)
Written(writes, meta, k) ==
    IF writes = <<>> THEN <<>>
    ELSE LET rest == Written(SubSeq(writes, 1, Len(writes) - 1), meta, k)
             w == writes[Len(writes)]
         IN  IF w.meta = meta /\ w.k = k THEN Append(rest, w.v) ELSE rest

C13_WritesAccumulate ==
    call.op = "add_data" =>
        \A meta \in BOOLEAN, k \in {"a", "validation"} :
            LET attrdict == IF meta THEN call.node.metadata
                            ELSE call.node.attributes
                vs == Written(call.writes, meta, k)
            IN  /\ vs = <<>> => k \notin DOMAIN attrdict
                /\ Len(vs) = 1 => attrdict[k] = vs[1]
                /\ Len(vs) >= 2 => attrdict[k] = PyList(vs)

(***************************************************************************)
(* C14: a Delegating construct selects the Definition reached by looking   *)
(* the key up in the dispatch map and following alias entries until a      *)
(* Definition is reached, a key absent from the map selecting 'default';   *)
(* that Definition constructs under the real parent, which gains exactly   *)
(* one child, the node it built.  With {X: Y, Y: D, default: F} and key X  *)
(* the selected Definition is D.                                           *)
(***************************************************************************)
\* The parent of the Delegating definition of the grammar is the node of
\* 'top', whose first child is 'hdr'.
DelegatingReturned ==
    /\ parse = 1 /\ phase = "returned" /\ cfg.body = "deleg"

Selected == Delegated(cfg.defdict, PyStr(cfg.key))

C14_DelegatesThroughAliases ==
    (DelegatingReturned /\ Selected.t = "def") =>
        /\ Len(nodes[2].children) = 2
        /\ LET child == nodes[nodes[2].children[2]]
           IN  /\ child.name = Selected.d
               /\ child.parent = 2
               /\ child.metadata["definition"] = Selected
        /\ (cfg.defdict = AliasDict /\ cfg.key = "K1") =>
               Selected = DefRef("rec")
        /\ cfg.key \notin DOMAIN cfg.defdict =>
               Selected = cfg.defdict["default"]

C14_Witness ==
    /\ DelegatingReturned
    /\ cfg.defdict = AliasDict /\ cfg.key = "K1"
    /\ nodes[nodes[2].children[2]].name = "rec"
    /\ "value" \in DOMAIN nodes[nodes[2].children[2]].attributes

(***************************************************************************)
(* C15: when the alias chain that starts at the key reaches a value that   *)
(* is neither a Definition nor a key of the dispatch map, the Delegating   *)
(* construct records one Warning in the parent's metadata, constructs no   *)
(* node, reads no byte and returns without raising.                        *)
(***************************************************************************)
\* The chain of the entries of the map from value v on reaches a value
\* that is neither a Definition nor a key of the map.
RECURSIVE DeadEnds(_, _, _)
DeadEnds(defdict, v, fuel) ==
    /\ v.t # "def"
    /\ \/ v.t # "str"
       \/ v.s \notin DOMAIN defdict
       \/ fuel > 0 /\ DeadEnds(defdict, defdict[v.s], fuel - 1)

\* The chain starts at the entry of the key, or at the 'default' entry for
\* a key absent from the map.
ChainDeadEnds ==
    LET n == Cardinality(DOMAIN cfg.defdict)
    IN  IF cfg.key \in DOMAIN cfg.defdict
        THEN DeadEnds(cfg.defdict, cfg.defdict[cfg.key], n)
        ELSE IF "default" \in DOMAIN cfg.defdict
        THEN DeadEnds(cfg.defdict, cfg.defdict["default"], n)
        ELSE TRUE

\* A parse of 'top' with a Delegating second child has ended; the first
\* child was read and no validation of the grammar is Fatal.
DelegatingEnded ==
    /\ parse = 1 /\ Ended /\ cfg.body = "deleg" /\ Size >= 1
    /\ \A i \in 1..Len(cfg.vlist) : cfg.vlist[i].error # ValidationFatal

\* The effect of a dispatch that found nothing.
WarnedOnly ==
    /\ phase = "returned"
    /\ nodes[2].children = <<3>>
    /\ pos = 1
    /\ "validation" \in DOMAIN nodes[2].metadata
    /\ Cardinality({x \in IssuesOf(nodes[2].metadata["validation"]) :
                       x.stage = "delegate"}) = 1
    /\ \A x \in IssuesOf(nodes[2].metadata["validation"]) :
           x.stage = "delegate" => x.level = ValidationWarning

C15_DeadEndWarns ==
    (DelegatingEnded /\ ChainDeadEnds) => WarnedOnly

\* C15, amended: the dead end leads to the Warning only when the map has
\* no 'default' entry; with a 'default' Definition in the map, a value
\* that is not a key selects it, and it constructs its node.
C15_DeadEndWithoutDefault ==
    (DelegatingEnded /\ ChainDeadEnds) =>
        IF "default" \notin DOMAIN cfg.defdict
        THEN WarnedOnly
        ELSE (cfg.defdict["default"].t = "def" /\ phase = "returned") =>
                 /\ Len(nodes[2].children) = 2
                 /\ nodes[nodes[2].children[2]].name =
                        cfg.defdict["default"].d

C15_Witness ==
    /\ DelegatingEnded /\ ChainDeadEnds
    /\ cfg.defdict = [K1 |-> PyStr("K3")] /\ cfg.key = "K1"
    /\ WarnedOnly
    /\ Size > 1

(***************************************************************************)
(* C16: the probe node of a Delegating definition is the last child of the *)
(* real parent while the key function and the 'pre' validations are        *)
(* evaluated, and is not among the parent's children once the Delegating   *)
(* construct has ended, whether it returned or was aborted by an           *)
(* exception; removing the probe leaves the other children unchanged.      *)
(***************************************************************************)
IsProbe(n) == nodes[n].name = "DelegatingDef"

\* The Delegating construct that made probe n has not removed it yet.
Probing(n) ==
    \E i \in 1..Len(stack) :
        /\ stack[i].d = "deleg" /\ stack[i].node = n
        /\ stack[i].pc \in {"probe", "key", "delete"}

Listed(ns, n) ==
    \E k \in 1..Len(ns[ns[n].parent].children) :
        ns[ns[n].parent].children[k] = n

C16_ProbeDetached ==
    /\ [](\A n \in 1..Len(nodes) :
              IsProbe(n) =>
                  IF Probing(n)
                  THEN nodes[nodes[n].parent].children[
                           Len(nodes[nodes[n].parent].children)] = n
                  ELSE ~Listed(nodes, n))
    /\ [][\A n \in 1..Len(nodes) :
              (IsProbe(n) /\ Listed(nodes, n) /\ ~Listed(nodes', n)) =>
                  nodes' = DelLastChild(nodes, nodes[n].parent)]_vars

(***************************************************************************)
(* C17: a node enters the tree only by being appended to the end of its    *)
(* parent's children when it is created, so children are in construction   *)
(* order and every child's parent is the node that lists it; during a      *)
(* parse a node leaves a children list only as the probe of a Delegating   *)
(* definition or as the last child of a NodeSequence discarded by the      *)
(* recovery at the end of the source.                                      *)
(***************************************************************************)
AllButLast(s) == SubSeq(s, 1, Len(s) - 1)

\* The last child of node n leaves it as a probe or by the recovery.
Discards(n) ==
    LET gone == nodes[n].children[Len(nodes[n].children)]
    IN  \/ /\ IsProbe(gone)
           /\ Top.d = "deleg" /\ Top.node = gone
        \/ /\ nodes[n].name \in SeqDefs
           /\ exc = "EOFError" /\ exc' = "none"
           /\ pos = Size

C17_ChildrenOnlyAppended ==
    /\ [](\A n \in 1..Len(nodes) :
              \A k \in 1..Len(nodes[n].children) :
                  /\ nodes[n].children[k] \in 1..Len(nodes)
                  /\ nodes[nodes[n].children[k]].parent = n
                  /\ \A j \in 1..(k - 1) :
                         nodes[n].children[j] < nodes[n].children[k])
    /\ [][parse' = parse =>
              /\ Len(nodes') \in {Len(nodes), Len(nodes) + 1}
              /\ \A n \in 1..Len(nodes) :
                     /\ nodes'[n].name = nodes[n].name
                     /\ nodes'[n].parent = nodes[n].parent
                     /\ \/ nodes'[n].children = nodes[n].children
                        \/ /\ Len(nodes') = Len(nodes) + 1
                           /\ nodes'[Len(nodes')].parent = n
                           /\ nodes'[n].children =
                                  Append(nodes[n].children, Len(nodes'))
                        \/ /\ nodes[n].children # <<>>
                           /\ nodes'[n].children =
                                  AllButLast(nodes[n].children)
                           /\ Discards(n)
              /\ Len(nodes') = Len(nodes) + 1 =>
                     /\ nodes'[Len(nodes')].children = <<>>
                     /\ LET p == nodes'[Len(nodes')].parent
                        IN  nodes'[p].children =
                                Append(nodes[p].children, Len(nodes'))]_vars

\* A parse in which a probe was removed and the recovery discarded the
\* last child of the delegated sequence has returned.
C17_Witness ==
    /\ phase = "returned" /\ cfg.body = "deleg"
    /\ \E k \in 1..Len(log) : log[k].e = "delete"
    /\ \E k \in 1..Len(log) : log[k].e = "recover"
    /\ Len(nodes) = 8 /\ Len(nodes[5].children) = 2

(***************************************************************************)
(* C18: resolving a Path evaluates its chain from the root to the leaf:    *)
(* the empty Path gives the target, an attribute step the attribute of the *)
(* result so far, a call step the result so far called with the recorded   *)
(* arguments, every Path among them resolved against the target of the     *)
(* whole resolution; Path().a.b(5) gives 10 where a.b doubles.             *)
(***************************************************************************)
\* The steps of a Path, root first.
RECURSIVE Chain(_)
Chain(p) == IF p.parent = PyNone THEN <<>> ELSE Append(Chain(p.parent), p)

\* The value after the first k steps of p on the target.
RECURSIVE Evaluated(_, _, _)
Evaluated(p, target, k) ==
    IF k = 0 THEN target
    ELSE LET step == Chain(p)[k]
             sofar == Evaluated(p, target, k - 1)
             Arg(a) == IF a.t = "Path"
                       THEN Evaluated(a, target, Len(Chain(a)))
                       ELSE a
             args == [i \in 1..Len(step.args) |-> Arg(step.args[i])]
             kwargs == [n \in DOMAIN step.kwargs |-> Arg(step.kwargs[n])]
         IN  IF sofar = PyError THEN PyError
             ELSE IF ~step.call THEN getattr(sofar, step.name.s)
             ELSE IF step.name = PyNone THEN PyCall(sofar, args, kwargs)
             ELSE PyCall(getattr(sofar, step.name.s), args, kwargs)

C18_ResolvesRootToLeaf ==
    Done("resolve_path") =>
        /\ call.out = Evaluated(call.path, call.target,
                                Len(Chain(call.path)))
        /\ call.path = EmptyPath => call.out = call.target
        /\ call.path = Path_call(Path_a_b, <<PyInt(5)>>, EmptyDict) =>
               call.out = PyInt(10)
        /\ call.path = Path_call(Path_a_scale, <<Path_a_n>>,
                                 [by |-> Path_n]) =>
               call.out = PyInt(call.target.attrs.a.attrs.n.n
                                * call.target.attrs.n.n)

\* A call whose positional and keyword arguments are Paths has been
\* resolved on a target where the two arguments differ.
C18_Witness ==
    /\ Done("resolve_path")
    /\ call.path = Path_call(Path_a_scale, <<Path_a_n>>, [by |-> Path_n])
    /\ call.target = Target(2)
    /\ call.out = PyInt(6)

(***************************************************************************)
(* C19: an arithmetic expression of a Path p and an integer k resolves to  *)
(* the value the expression has with the integer x that p resolves to in   *)
(* the place of p, with the Path on the left (p - k, p // k, p % k) and on *)
(* the right (k - p, k // p, k % p).                                       *)
(***************************************************************************)
\* l oper r on Python integers
Arithmetic(oper, l, r) ==
    CASE oper = "-" -> PySub(l, r)
      [] oper = "//" -> PyFloorDiv(l, r)
      [] oper = "%" -> PyMod(l, r)

C19_ArithmeticOnEitherSide ==
    Done("expression") =>
        LET x == Path_resolve_path(call.path, call.target, call.target).n
        IN  call.out = IF call.side = "left"
                       THEN Arithmetic(call.oper, x, call.k)
                       ELSE Arithmetic(call.oper, call.k, x)

(***************************************************************************)
(* C20: an AND of two validations passes exactly when both pass; of two    *)
(* sub-validations of different severity the one of the higher severity is *)
(* evaluated first, in either operand order, and when it fails its error   *)
(* is raised and the other is not evaluated; when only the one of the      *)
(* lower severity fails, that failure is raised.                           *)
(***************************************************************************)
\* The validation passes: a compound AND when both of its operands do, a
\* compound OR when one of them does.
RECURSIVE Holds(_)
Holds(v) ==
    IF ~IsCompound(v) THEN Passes(v)
    ELSE IF v.kind = "and" THEN Holds(v.v1) /\ Holds(v.v2)
    ELSE Holds(v.v1) \/ Holds(v.v2)

\* The severity of a validation: of a compound, the higher of the two.
RECURSIVE Severity(_)
Severity(v) ==
    IF ~IsCompound(v) THEN v.error
    ELSE IF Severity(v.v1) >= Severity(v.v2) THEN Severity(v.v1)
    ELSE Severity(v.v2)

\* The plain validations of a validation.
RECURSIVE Plains(_)
Plains(v) == IF IsCompound(v) THEN Plains(v.v1) \cup Plains(v.v2) ELSE {v}

AndAsSpecified(left, right, out) ==
    /\ out.exc = "none" <=> (Holds(left) /\ Holds(right))
    /\ Severity(left) # Severity(right) =>
           LET hi == IF Severity(left) > Severity(right) THEN left ELSE right
               lo == IF Severity(left) > Severity(right) THEN right ELSE left
           IN  /\ out.ran[1] \in Plains(hi)
               /\ ~Holds(hi) => out = ValidationCall(hi)
               /\ (Holds(hi) /\ ~Holds(lo)) =>
                      /\ out.exc = "raised"
                      /\ out.by = ValidationCall(lo).by
                      /\ out.error = ValidationCall(lo).error

C20_AndHigherSeverityFirst ==
    Done("and") => AndAsSpecified(call.left, call.right, call.out)

\* The same for two plain validations.
AndOfPlainValidations ==
    (Done("and") /\ ~IsCompound(call.left) /\ ~IsCompound(call.right)) =>
        AndAsSpecified(call.left, call.right, call.out)

(***************************************************************************)
(* C21: an OR of two validations raises nothing exactly when at least one  *)
(* of them passes; when both fail and their severities differ, the failure *)
(* raised is the one of the sub-validation of the higher severity, in      *)
(* either operand order.                                                   *)
(***************************************************************************)
OrAsSpecified(left, right, out) ==
    /\ out.exc = "none" <=> (Holds(left) \/ Holds(right))
    /\ (~Holds(left) /\ ~Holds(right)
        /\ Severity(left) # Severity(right)) =>
           LET hi == IF Severity(left) > Severity(right) THEN left ELSE right
           IN  /\ out.exc = "raised"
               /\ out.by = ValidationCall(hi).by
               /\ out.error = ValidationCall(hi).error

C21_OrRaisesHigherSeverity ==
    Done("or") => OrAsSpecified(call.left, call.right, call.out)

\* The same for two plain validations.
OrOfPlainValidations ==
    (Done("or") /\ ~IsCompound(call.left) /\ ~IsCompound(call.right)) =>
        OrAsSpecified(call.left, call.right, call.out)

(***************************************************************************)
(* C28: the severity of a compound validation is the higher of the         *)
(* severities of its two operands, in either operand order, and its stage  *)
(* the later of their stages; so in an expression with a nested compound   *)
(* the check of the highest severity is the first one evaluated.           *)
(***************************************************************************)
C28_CompoundSeverityAndStage ==
    /\ Done("compound") =>
           /\ call.out.error >= call.left.error
           /\ call.out.error >= call.right.error
           /\ call.out.error \in {call.left.error, call.right.error}
           /\ StageIndex(call.out.stage) >= StageIndex(call.left.stage)
           /\ StageIndex(call.out.stage) >= StageIndex(call.right.stage)
           /\ call.out.stage \in {call.left.stage, call.right.stage}
    /\ (Done("and") \/ Done("or")) =>
           \A v \in Plains(call.left) \cup Plains(call.right) :
               call.out.ran[1].error >= v.error

\* The stage of a compound alone.
CompoundStageIsLater ==
    Done("compound") =>
        /\ StageIndex(call.out.stage) >= StageIndex(call.left.stage)
        /\ StageIndex(call.out.stage) >= StageIndex(call.right.stage)
        /\ call.out.stage \in {call.left.stage, call.right.stage}

(***************************************************************************)
(* C22: a validation evaluated on a node takes a literal as it is, a Path  *)
(* resolved against the node and the name of an attribute of the node as   *)
(* that attribute, and applies the operator as value OP comparison ('in':  *)
(* comparison contains value); a false result raises the declared error,   *)
(* Warning when none is declared; a true result raises nothing; the node   *)
(* is unchanged.                                                           *)
(***************************************************************************)
\* The operand as the claim takes it.
Operand(x, node) ==
    IF x.t = "Path" THEN Path_resolve_path(x, node, node)
    ELSE IF x.t = "str" /\ x.s \in DOMAIN node.attrs THEN node.attrs[x.s]
    ELSE x

\* value OP comparison
Compared(symbol, value, comparison) ==
    CASE symbol = "==" -> value = comparison
      [] symbol = "!=" -> value # comparison
      [] symbol = "<" -> value.n < comparison.n
      [] symbol = "<=" -> value.n <= comparison.n
      [] symbol = ">=" -> value.n >= comparison.n
      [] symbol = ">" -> value.n > comparison.n
      [] symbol = "in" ->
             \E i \in 1..Len(comparison.v) : comparison.v[i] = value
      [] symbol = "not in" ->
             \A i \in 1..Len(comparison.v) : comparison.v[i] # value

\* The operator is defined on the two values.
Comparable(symbol, value, comparison) ==
    CASE symbol \in {"==", "!="} -> TRUE
      [] symbol \in {"<", "<=", ">=", ">"} ->
             value.t = "int" /\ comparison.t = "int"
      [] OTHER -> comparison.t \in {"list", "tuple"}

ValidationAsSpecified(c) ==
    LET value == Operand(c.value, c.node)
        comparison == Operand(c.comparison, c.node)
    IN  Comparable(c.func, value, comparison) =>
            /\ c.out.node = c.node
            /\ IF Compared(c.func, value, comparison)
               THEN c.out.exc = "none"
               ELSE /\ c.out.exc = "raised"
                    /\ c.out.error = IF c.error = PyNone
                                     THEN ValidationWarning
                                     ELSE c.error.level

C22_ValidationEvaluates == Done("validation") => ValidationAsSpecified(call)

\* The same where neither operand is a list or tuple literal.
ValidationWithoutSequenceLiterals ==
    (/\ Done("validation")
     /\ call.value.t \notin {"list", "tuple"}
     /\ call.comparison.t \notin {"list", "tuple"}) =>
        ValidationAsSpecified(call)

(***************************************************************************)
(* Vocabulary of the properties of leaf definitions.                       *)
(***************************************************************************)
Named(names) == {n \in 1..Len(nodes) : nodes[n].name \in names}

HasValue(n) == "value" \in DOMAIN nodes[n].attributes

ValueOf(n) == nodes[n].attributes["value"]

StartOf(n) == nodes[n].metadata["start_index"].n

\* construct(n) has returned the node.
Constructed(n) ==
    \E k \in 1..Len(log) : log[k].e = "return" /\ log[k].n = n

\* The given stage of validations has been run on the node.
StageRan(n, stage) ==
    \E k \in 1..Len(log) :
        log[k].e = "stage" /\ log[k].n = n /\ log[k].s = stage

LastChild(n) ==
    LET siblings == nodes[nodes[n].parent].children
    IN  siblings[Len(siblings)] = n

(***************************************************************************)
(* C23: a StaticDef asks the source for exactly len(expected) bytes; once  *)
(* they are read, construct returns the node if and only if they equal     *)
(* expected, and raises ValidationFatal otherwise, after which the node is *)
(* the last child of its parent and the source position stays right after  *)
(* the bytes of the node.                                                  *)
(***************************************************************************)
C23_StaticMatchesOrFatal ==
    \A n \in Named({"sig"}) :
        /\ \A k \in 1..Len(log) :
               (log[k].e = "read" /\ log[k].n = n) =>
                   log[k].i = Len(Expected)
        /\ HasValue(n) =>
               /\ ValueOf(n) =
                      PyBytes(SubSeq(cfg.src, StartOf(n) + 1,
                                     StartOf(n) + Len(Expected)))
               /\ Constructed(n) => ValueOf(n) = PyBytes(Expected)
               /\ (ValueOf(n) = PyBytes(Expected) /\ StageRan(n, "post")) =>
                      /\ exc # "Fatal"
                      /\ Ended => Constructed(n)
               /\ (ValueOf(n) # PyBytes(Expected) /\ StageRan(n, "post")) =>
                      /\ exc = "Fatal"
                      /\ phase # "returned"
                      /\ LastChild(n)
                      /\ pos = StartOf(n) + Len(Expected)

\* Bytes other than the expected ones were read, Fatal has left every
\* construct, and bytes of the source are still unread.
C23_Witness ==
    /\ phase = "raised" /\ exc = "Fatal" /\ pos < Size
    /\ \E n \in Named({"sig"}) :
           HasValue(n) /\ ValueOf(n) # PyBytes(Expected)

(***************************************************************************)
(* C24: when the bytes read by a StringDef or a NullTerminatedStringDef    *)
(* are not valid in the encoding, the node gets exactly one issue, of      *)
(* level Error, in its metadata, its value is the text with U+FFFD in      *)
(* place of each undecodable byte, the source position afterwards is that  *)
(* of any string of the same byte length, construct returns the node and   *)
(* the siblings after it are constructed.                                  *)
(***************************************************************************)
Strings == Named({"str", "nts"})

\* The bytes of the string of node n in the source.
BytesOf(n) ==
    IF nodes[n].name = "str"
    THEN SubSeq(cfg.src, StartOf(n) + 1, StartOf(n) + StrLen)
    ELSE LET z == CHOOSE i \in (StartOf(n) + 1)..Size :
                      /\ cfg.src[i] = 0
                      /\ \A j \in (StartOf(n) + 1)..(i - 1) : cfg.src[j] # 0
         IN  SubSeq(cfg.src, StartOf(n) + 1, z - 1)

\* The bytes of the source the string takes, terminator included.
Consumed(n) ==
    IF nodes[n].name = "str" THEN StrLen ELSE Len(BytesOf(n)) + 1

Undecodable(n) == \E i \in 1..Len(BytesOf(n)) : BytesOf(n)[i] >= 128

C24_DecodeFallback ==
    \A n \in Strings :
        HasValue(n) =>
            /\ ValueOf(n).t = "str"
            /\ Len(ValueOf(n).s) = Len(BytesOf(n))
            /\ \A i \in 1..Len(BytesOf(n)) :
                   ValueOf(n).s[i] = IF BytesOf(n)[i] < 128
                                     THEN BytesOf(n)[i] ELSE 65533
            /\ IF Undecodable(n)
               THEN /\ "validation" \in DOMAIN nodes[n].metadata
                    /\ \E x \in IssuesOf(nodes[n].metadata["validation"]) :
                           /\ IssuesOf(nodes[n].metadata["validation"]) = {x}
                           /\ x.level = ValidationError
               ELSE "validation" \notin DOMAIN nodes[n].metadata
            /\ exc # "Fatal"
            /\ (Running /\ Top.node = n) =>
                   pos = StartOf(n) + Consumed(n)
            /\ "end_index" \in DOMAIN nodes[n].metadata =>
                   nodes[n].metadata["end_index"].n =
                       StartOf(n) + Consumed(n)
            /\ Ended =>
                   /\ Constructed(n)
                   /\ Len(nodes[nodes[n].parent].children) = 3
                   /\ (StartOf(n) + Consumed(n) < Size) =>
                          /\ phase = "returned"
                          /\ Constructed(nodes[nodes[n].parent].children[3])

\* A parse has returned with a string that holds a replacement character,
\* followed by its sibling.
C24_Witness ==
    /\ phase = "returned"
    /\ \E n \in Strings :
           /\ HasValue(n) /\ Undecodable(n)
           /\ ~LastChild(n)

(***************************************************************************)
(* C25: the attribute producers of a node run in declared order; each one  *)
(* that succeeds merges its value under its name into the attributes, one  *)
(* that raises AttributeProcessingError stores no attribute and is         *)
(* recorded as an issue under 'validation' in the metadata of the node,    *)
(* and the producers after it, the post-read metadata and the 'post'       *)
(* validations still run.                                                  *)
(***************************************************************************)
AttributesOf(n) ==
    Template(IF nodes[n].name = "DelegatingDef" THEN "deleg"
             ELSE nodes[n].name).attributes

\* The producers of node n have been called.
AttributesRan(n) ==
    \E k \in 1..Len(log) : log[k].e = "attribute" /\ log[k].n = n

\* What add_data leaves under a key after the given writes.
Merged(values) ==
    IF Len(values) = 1 THEN values[1] ELSE PyList(values)

\* The values of the producers of the given name that succeed, in
\* declared order.
Produced(al, name) ==
    LET RECURSIVE From(_)
        From(i) ==
            IF i > Len(al) THEN <<>>
            ELSE IF al[i].ok /\ al[i].name = name
            THEN <<PyInt(i)>> \o From(i + 1)
            ELSE From(i + 1)
    IN  From(1)

AttributeIssues(n) ==
    IF "validation" \in DOMAIN nodes[n].metadata
    THEN {x \in IssuesOf(nodes[n].metadata["validation"]) :
              x.stage = "attribute"}
    ELSE {}

C25_AttributeProducers ==
    \A n \in 1..Len(nodes) :
        AttributesRan(n) =>
            LET al == AttributesOf(n)
            IN  /\ \A name \in {"a", "b"} :
                       IF Produced(al, name) = <<>>
                       THEN name \notin DOMAIN nodes[n].attributes
                       ELSE /\ name \in DOMAIN nodes[n].attributes
                            /\ nodes[n].attributes[name] =
                                   Merged(Produced(al, name))
                /\ {x.i : x \in AttributeIssues(n)} =
                       {i \in 1..Len(al) : ~al[i].ok}
                /\ Ended =>
                       /\ "end_index" \in DOMAIN nodes[n].metadata
                       /\ StageRan(n, "post")
                       /\ \A i \in 1..Len(ValidationsOf(n)) :
                              (/\ ValidationsOf(n)[i].stage = "post"
                               /\ ~Passes(ValidationsOf(n)[i])) =>
                                  RecordedOn(n, n, "post", i)

\* A parse has ended in which a producer between two successful ones
\* raised on a node that also has a failing 'post' validation.
C25_Witness ==
    /\ Ended
    /\ \E n \in 1..Len(nodes) :
           /\ AttributesRan(n)
           /\ Len(AttributesOf(n)) = 3
           /\ AttributeIssues(n) # {}
           /\ RecordedOn(n, n, "post", 1)

(***************************************************************************)
(* C26: in a construct driven by a generator, every value sent after the   *)
(* container Node is a child Node of the container, and every Definition   *)
(* the generator yields is constructed once: a sequence whose generator    *)
(* has yielded k Definitions when the parse returns has k children.        *)
(***************************************************************************)
C26_DriverProtocol ==
    /\ \A j \in 1..Len(stack) :
           stack[j].pc = "send" =>
               /\ stack[j].last.t = "node"
               /\ nodes[stack[j].last.id].parent = stack[j].node
    /\ (/\ parse = 1 /\ phase = "returned" /\ Plain /\ cfg.root = "seq"
        /\ cfg.items.t = "int" /\ cfg.items.n > 0) =>
           Len(nodes[2].children) = gen["seq"].i

(***************************************************************************)
(* C27: on a dispatch map in which following the alias entries never comes *)
(* back to a key, the key resolution of a Delegating construct ends, with  *)
(* a Definition or with nothing found.                                     *)
(***************************************************************************)
\* The key reached from key k by following n alias entries, "" when the
\* chain has left the map or has reached a Definition.
RECURSIVE AliasTarget(_, _, _)
AliasTarget(defdict, k, n) ==
    IF n = 0 THEN k
    ELSE LET from == AliasTarget(defdict, k, n - 1)
         IN  IF from \in DOMAIN defdict /\ defdict[from].t = "str"
             THEN defdict[from].s ELSE ""

Revisits(defdict) ==
    \E k \in DOMAIN defdict :
        \E n \in 1..Cardinality(DOMAIN defdict) :
            AliasTarget(defdict, k, n) = k

C27_DispatchTerminates ==
    (/\ call.op = "dispatch" /\ call.st # "pending"
     /\ ~Revisits(call.defdict)) =>
        /\ call.st = "done"
        /\ call.out.t \in {"def", "none"}

\* The same on the maps that have no alias as 'default' entry.
TerminatesWithoutAliasDefault ==
    (/\ call.op = "dispatch" /\ call.st # "pending"
     /\ ~Revisits(call.defdict)
     /\ ("default" \in DOMAIN call.defdict =>
            call.defdict["default"].t = "def")) =>
        /\ call.st = "done"
        /\ call.out.t \in {"def", "none"}

(***************************************************************************)
(* C29: the position of a source never decreases, and in the tree of a     *)
(* parse that has returned every node has start_index <= end_index and     *)
(* length = end_index - start_index, a node with children starts where its *)
(* first child starts and ends where its last child ends, and each child   *)
(* starts where the sibling before it ends.                                *)
(***************************************************************************)
Measured(n) ==
    LET m == nodes[n].metadata
    IN  /\ {"start_index", "end_index", "length"} \subseteq DOMAIN m
        /\ m["start_index"].n <= m["end_index"].n
        /\ m["length"].n = m["end_index"].n - m["start_index"].n

Spans(n) ==
    LET m == nodes[n].metadata
        children == nodes[n].children
    IN  /\ children # <<>> =>
               /\ m["start_index"] =
                      nodes[children[1]].metadata["start_index"]
               /\ m["end_index"] =
                      nodes[children[Len(children)]].metadata["end_index"]
        /\ \A i \in 1..(Len(children) - 1) :
               nodes[children[i]].metadata["end_index"] =
                   nodes[children[i + 1]].metadata["start_index"]

PositionNeverDecreases == [][parse' = parse => pos' >= pos]_vars

C29_PositionsConsistent ==
    /\ PositionNeverDecreases
    /\ [](phase = "returned" =>
             \A n \in 2..Len(nodes) :
                 InTree(nodes, n) =>
                     /\ Measured(n)
                     /\ \A c \in 1..Len(nodes[n].children) :
                            Measured(nodes[n].children[c])
                     /\ Spans(n))

(***************************************************************************)
(* C30: once construct has returned a node, the 'validation' entry of its  *)
(* metadata is one flat list whose elements are the issues recorded on the *)
(* node, those of the validations in the order in which they were raised.  *)
(***************************************************************************)
\* The issues raised on node n by validations, in the order of the history.
RaisedOn(n) ==
    LET RECURSIVE From(_)
        From(k) ==
            IF k > Len(log) THEN <<>>
            ELSE IF log[k].e = "issue" /\ log[k].n = n
            THEN <<[stage |-> log[k].s, i |-> log[k].i]>> \o From(k + 1)
            ELSE From(k + 1)
    IN  From(1)

\* The elements of a list that are issues of validations.
OfValidations(list) ==
    LET RECURSIVE From(_)
        From(k) ==
            IF k > Len(list) THEN <<>>
            ELSE IF list[k].t = "issue" /\ list[k].stage # "attribute"
            THEN <<[stage |-> list[k].stage, i |-> list[k].i]>>
                     \o From(k + 1)
            ELSE From(k + 1)
    IN  From(1)

FlatIssueList(v) ==
    /\ v.t = "list"
    /\ \A k \in 1..Len(v.v) : v.v[k].t = "issue"

C30_IssuesInOneFlatList ==
    \A n \in 1..Len(nodes) :
        (Constructed(n) /\ "validation" \in DOMAIN nodes[n].metadata) =>
            /\ FlatIssueList(nodes[n].metadata["validation"])
            /\ OfValidations(nodes[n].metadata["validation"].v) = RaisedOn(n)

====
